---- MODULE Spec2Model ----
(***************************************************************************)
(* Console todo application: command grammar, state container, operation   *)
(* handlers, command router and JSON persistence.                          *)
(*                                                                         *)
(* Text is modelled as a sequence of one-character strings, so that        *)
(* trimming, lower-casing, quote stripping and the regular expressions of  *)
(* the grammar are computed rather than assumed.                           *)
(***************************************************************************)
EXTENDS Integers, Sequences, FiniteSets, TLC

----------------------------------------------------------------------------
(* Bounds of the model *)

MaxTodos == 2
MaxClock == 1
MaxSaveFailures == 1

(* Program constants *)

MaxTitleLength == 255
MaxInputLength == 1000

----------------------------------------------------------------------------
(* Text primitives (JavaScript String methods and RegExp classes) *)

\* The value of an absent property, an unmatched capture group, a missing key.
Undefined == "undefined"
NoText == <<"undefined">>

UpperLetters == <<"A","B","C","D","E","F","G","H","I","J","K","L","M",
                  "N","O","P","Q","R","S","T","U","V","W","X","Y","Z">>
LowerLetters == <<"a","b","c","d","e","f","g","h","i","j","k","l","m",
                  "n","o","p","q","r","s","t","u","v","w","x","y","z">>
Digits == <<"0","1","2","3","4","5","6","7","8","9">>

IsSpace(c) == c \in {" ", "\t", "\n"}
IsDigit(c) == \E i \in 1..10 : Digits[i] = c
\* "." of a RegExp without the s flag: any character but a line terminator
IsDot(c) == c # "\n"

LowerChar(c) ==
    IF \E i \in 1..26 : UpperLetters[i] = c
    THEN LowerLetters[CHOOSE i \in 1..26 : UpperLetters[i] = c]
    ELSE c

toLowerCase(s) == [i \in 1..Len(s) |-> LowerChar(s[i])]

RECURSIVE TrimStart(_)
TrimStart(s) ==
    IF s # <<>> /\ IsSpace(Head(s)) THEN TrimStart(Tail(s)) ELSE s

RECURSIVE TrimEnd(_)
TrimEnd(s) ==
    IF s # <<>> /\ IsSpace(s[Len(s)]) THEN TrimEnd(SubSeq(s, 1, Len(s) - 1)) ELSE s

trim(s) == TrimEnd(TrimStart(s))

\* Length of the longest prefix of s made of characters that are not white space
RECURSIVE WordLen(_)
WordLen(s) ==
    IF s = <<>> \/ IsSpace(Head(s)) THEN 0 ELSE 1 + WordLen(Tail(s))

FirstWord(s) == SubSeq(s, 1, WordLen(s))
AfterWord(s) == SubSeq(s, WordLen(s) + 1, Len(s))

AllDigits(s) == s # <<>> /\ \A i \in 1..Len(s) : IsDigit(s[i])
AllDot(s) == s # <<>> /\ \A i \in 1..Len(s) : IsDot(s[i])

DigitValue(c) == (CHOOSE i \in 1..10 : Digits[i] = c) - 1

RECURSIVE parseInt(_)
parseInt(s) ==
    IF s = <<>> THEN 0
    ELSE 10 * parseInt(SubSeq(s, 1, Len(s) - 1)) + DigitValue(s[Len(s)])

Quote == "\""

\* A const declaration: Body(v) with v the value of x, computed once
Const(x, Body(_)) == CHOOSE r \in {Body(v) : v \in {x}} : TRUE

----------------------------------------------------------------------------
(* Command types and the Command structure *)

ADD_TODO == "ADD_TODO"
COMPLETE_TODO == "COMPLETE_TODO"
INCOMPLETE_TODO == "INCOMPLETE_TODO"
TOGGLE_TODO == "TOGGLE_TODO"
DELETE_TODO == "DELETE_TODO"
EDIT_TODO == "EDIT_TODO"
LIST_TODOS == "LIST_TODOS"
CLEAR_COMPLETED == "CLEAR_COMPLETED"
FILTER_TODOS == "FILTER_TODOS"
HELP == "HELP"
EXIT == "EXIT"
UNKNOWN == "UNKNOWN"

\* The object COMMAND_TYPES: its keys are its values
COMMAND_TYPES ==
    {ADD_TODO, COMPLETE_TODO, INCOMPLETE_TODO, TOGGLE_TODO, DELETE_TODO, EDIT_TODO,
     LIST_TODOS, CLEAR_COMPLETED, FILTER_TODOS, HELP, EXIT, UNKNOWN}

\* COMMAND_TYPES[key]: a key the object does not have reads as undefined
CommandTypeOf(key) == IF key \in COMMAND_TYPES THEN key ELSE Undefined

NoId == 0 - 1

\* A payload with no property set
EmptyPayload ==
    [keys |-> {}, input |-> NoText, title |-> NoText, id |-> NoId, filter |-> NoText,
     searchTerm |-> NoText, sortBy |-> NoText, ascending |-> FALSE]

\* new Command(type, payload, meta); meta is the set of its flags
Command(type, payload, meta) == [type |-> type, payload |-> payload, meta |-> meta]

ALL == <<"a","l","l">>
ACTIVE == <<"a","c","t","i","v","e">>
COMPLETED == <<"c","o","m","p","l","e","t","e","d">>
Views == {ALL, ACTIVE, COMPLETED}

----------------------------------------------------------------------------
(* The inputs of the model *)

\* Lines typed at the prompt:
\*   'add "a"', 'add ""', 'c 1', 'complete 1', 'incomplete 1', 'toggle 2', 'delete 1', 'delete 9',
\*   'edit 1 "b"', 'ls active', 'stats', 'clear', 'filter active', 'help', 'bye', 'exit', 'c', '  ',
\*   'new "a b"', 'find A', 'sort title desc', 'sort status'
InputLines ==
    {<<"a","d","d"," ","\"","a","\"">>,
     <<"a","d","d"," ","\"","\"">>,
     <<"c"," ","1">>,
     <<"c","o","m","p","l","e","t","e"," ","1">>,
     <<"i","n","c","o","m","p","l","e","t","e"," ","1">>,
     <<"t","o","g","g","l","e"," ","2">>,
     <<"d","e","l","e","t","e"," ","1">>,
     <<"d","e","l","e","t","e"," ","9">>,
     <<"e","d","i","t"," ","1"," ","\"","b","\"">>,
     <<"l","s"," ","a","c","t","i","v","e">>,
     <<"s","t","a","t","s">>,
     <<"c","l","e","a","r">>,
     <<"f","i","l","t","e","r"," ","a","c","t","i","v","e">>,
     <<"h","e","l","p">>,
     <<"b","y","e">>,
     <<"e","x","i","t">>,
     <<"c">>,
     <<" "," ">>,
     <<"n","e","w"," ","\"","a"," ","b","\"">>,
     <<"f","i","n","d"," ","A">>,
     <<"s","o","r","t"," ","t","i","t","l","e"," ","d","e","s","c">>,
     <<"s","o","r","t"," ","s","t","a","t","u","s">>}

\* More Add lines: 'ADD  b', 'new  "d" ', 'create c ', 'add "  "'
AddLines ==
    {<<"A","D","D"," "," ","b">>,
     <<"n","e","w"," "," ","\"","d","\""," ">>,
     <<"c","r","e","a","t","e"," ","c"," ">>,
     <<"a","d","d"," ","\""," "," ","\"">>}

\* Inputs given to processMultipleCommands: 'c', 'add b;x;delete 1',
\* 'toggle 1<newline>bogus', 'done 2;edit 2 c', 'notdone 2;clear', 'rm 2;ls;stats',
\* 'delete 0', 'bogus command;constructor'
BatchInputs ==
    {<<"c">>,
     <<"b","o","g","u","s"," ","c","o","m","m","a","n","d",";","c","o","n","s","t","r","u","c","t","o","r">>,
     <<"d","e","l","e","t","e"," ","0">>,
     <<"a","d","d"," ","b",";","x",";","d","e","l","e","t","e"," ","1">>,
     <<"t","o","g","g","l","e"," ","1","\n","b","o","g","u","s">>,
     <<"d","o","n","e"," ","2",";","e","d","i","t"," ","2"," ","c">>,
     <<"n","o","t","d","o","n","e"," ","2",";","c","l","e","a","r">>,
     <<"r","m"," ","2",";","l","s",";","s","t","a","t","s">>}

\* The characters sanitizeInput removes (the backquote, which it also removes, cannot
\* be written in a string of this module and occurs in no input of the model)
HarmfulChars == {";", "&", "|", "$", "(", ")", "{", "}", "[", "]", "\\", "<", ">"}

sanitizeInput(input) == SelectSeq(trim(input), LAMBDA c : c \notin HarmfulChars)

\* Input split at every ";" and newline: input.split(/;|\n/)
RECURSIVE Split(_, _)
Split(s, cur) ==
    IF s = <<>> THEN <<cur>>
    ELSE IF Head(s) \in {";", "\n"} THEN <<cur>> \o Split(Tail(s), <<>>)
    ELSE Split(Tail(s), Append(cur, Head(s)))

\* input.split(/;|\n/).map(cmd => cmd.trim()).filter(cmd => cmd)
commandStrings(input) ==
    LET parts == Split(input, <<>>)
    IN  SelectSeq([i \in 1..Len(parts) |-> trim(parts[i])], LAMBDA cmd : cmd # <<>>)

\* The texts the model hands to parseCommand
KnownTexts ==
    {sanitizeInput(line) : line \in InputLines \cup AddLines}
        \cup UNION {{commandStrings(b)[i] : i \in 1..Len(commandStrings(b))} :
                    b \in BatchInputs}

----------------------------------------------------------------------------
(* Command grammar *)

WordsAdd == {<<"a","d","d">>, <<"c","r","e","a","t","e">>, <<"n","e","w">>}
WordsComplete == {<<"c","o","m","p","l","e","t","e">>, <<"d","o","n","e">>, <<"f","i","n","i","s","h">>, <<"c","h","e","c","k">>}
WordsIncomplete == {<<"i","n","c","o","m","p","l","e","t","e">>, <<"n","o","t","d","o","n","e">>, <<"u","n","c","h","e","c","k">>, <<"u","n","f","i","n","i","s","h">>}
WordsToggle == {<<"t","o","g","g","l","e">>, <<"s","w","i","t","c","h">>}
WordsDelete == {<<"d","e","l","e","t","e">>, <<"r","e","m","o","v","e">>, <<"d","e","l">>, <<"r","m">>}
WordsEdit == {<<"e","d","i","t">>, <<"u","p","d","a","t","e">>, <<"c","h","a","n","g","e">>}
WordsList == {<<"l","i","s","t">>, <<"s","h","o","w">>, <<"v","i","e","w">>, <<"l","s">>}
WordsClear == {<<"c","l","e","a","r">>, <<"c","l","e","a","n">>, <<"c","l","e","a","r","c","o","m","p","l","e","t","e","d">>, <<"c","l","e","a","r","-","d","o","n","e">>, <<"c","l","e","a","r","_","d","o","n","e">>}
WordsFilter == {<<"f","i","l","t","e","r">>, <<"v","i","e","w">>}
WordsHelp == {<<"h","e","l","p">>, <<"?">>, <<"-","-","h","e","l","p">>, <<"-","h">>}
WordsExit == {<<"e","x","i","t">>, <<"q","u","i","t">>, <<"q">>, <<"s","t","o","p">>, <<"e","n","d">>, <<"b","y","e">>}
WordsSearch == {<<"s","e","a","r","c","h">>, <<"f","i","n","d">>}
WordsStats == {<<"s","t","a","t","s">>, <<"s","t","a","t","i","s","t","i","c","s">>, <<"c","o","u","n","t">>}
WordsSort == {<<"s","o","r","t">>}
SortKeys == {<<"i","d">>, <<"t","i","t","l","e">>, <<"d","a","t","e">>, <<"s","t","a","t","u","s">>}
SortDirs == {<<"a","s","c">>, <<"d","e","s","c">>}

PatternNames ==
    <<"ADD", "COMPLETE", "INCOMPLETE", "TOGGLE", "DELETE", "EDIT", "LIST",
      "CLEAR_COMPLETED", "FILTER", "HELP", "EXIT", "SEARCH", "STATS", "SORT">>

\* The result of String.match when the pattern does not match
NoMatch == <<>>

\* /^(w1|w2|...)$/i : the capture groups
MatchWord(s, words) ==
    IF toLowerCase(s) \in words THEN <<s>> ELSE NoMatch

\* /^(w1|w2|...)\s+(.+)$/i
MatchWordRest(s, words) ==
    Const(TrimStart(AfterWord(s)), LAMBDA rest :
        IF toLowerCase(FirstWord(s)) \in words /\ AllDot(rest)
        THEN <<FirstWord(s), rest>> ELSE NoMatch)

\* /^(w1|w2|...)\s+(\d+)$/i
MatchWordDigits(s, words) ==
    Const(TrimStart(AfterWord(s)), LAMBDA rest :
        IF toLowerCase(FirstWord(s)) \in words /\ AllDigits(rest)
        THEN <<FirstWord(s), rest>> ELSE NoMatch)

\* /^(w1|w2|...)\s+(\d+)\s+(.+)$/i
MatchWordDigitsRest(s, words) ==
    Const(TrimStart(AfterWord(s)), LAMBDA rest :
        Const(TrimStart(AfterWord(rest)), LAMBDA text :
            IF toLowerCase(FirstWord(s)) \in words /\ AllDigits(FirstWord(rest))
               /\ AllDot(text)
            THEN <<FirstWord(s), FirstWord(rest), text>> ELSE NoMatch))

\* /^(w1|w2|...)(?:\s+(o1|o2|...))?$/i : an unmatched group is undefined
MatchWordOption(s, words, options) ==
    Const(TrimStart(AfterWord(s)), LAMBDA rest :
        IF toLowerCase(FirstWord(s)) \in words
        THEN IF AfterWord(s) = <<>> THEN <<FirstWord(s), NoText>>
             ELSE IF toLowerCase(rest) \in options THEN <<FirstWord(s), rest>>
             ELSE NoMatch
        ELSE NoMatch)

\* /^(w1|w2|...)\s+(o1|o2|...)$/i
MatchWordChoice(s, words, options) ==
    Const(TrimStart(AfterWord(s)), LAMBDA rest :
        IF toLowerCase(FirstWord(s)) \in words /\ toLowerCase(rest) \in options
        THEN <<FirstWord(s), rest>> ELSE NoMatch)

\* /^(sort)\s+(k1|k2|...)(?:\s+(asc|desc))?$/i
MatchWordKeyOption(s, words, keys, options) ==
    Const(TrimStart(AfterWord(s)), LAMBDA rest :
        Const(TrimStart(AfterWord(rest)), LAMBDA dir :
            IF toLowerCase(FirstWord(s)) \in words
               /\ toLowerCase(FirstWord(rest)) \in keys
            THEN IF AfterWord(rest) = <<>>
                 THEN <<FirstWord(s), FirstWord(rest), NoText>>
                 ELSE IF toLowerCase(dir) \in options
                 THEN <<FirstWord(s), FirstWord(rest), dir>>
                 ELSE NoMatch
            ELSE NoMatch))

\* trimmedInput.match(COMMAND_PATTERNS[name]) without the whole match: [, ...args]
COMMAND_PATTERNS(name, s) ==
    CASE name = "ADD" -> MatchWordRest(s, WordsAdd)
      [] name = "COMPLETE" -> MatchWordDigits(s, WordsComplete)
      [] name = "INCOMPLETE" -> MatchWordDigits(s, WordsIncomplete)
      [] name = "TOGGLE" -> MatchWordDigits(s, WordsToggle)
      [] name = "DELETE" -> MatchWordDigits(s, WordsDelete)
      [] name = "EDIT" -> MatchWordDigitsRest(s, WordsEdit)
      [] name = "LIST" -> MatchWordOption(s, WordsList, Views)
      [] name = "CLEAR_COMPLETED" -> MatchWord(s, WordsClear)
      [] name = "FILTER" -> MatchWordChoice(s, WordsFilter, Views)
      [] name = "HELP" -> MatchWord(s, WordsHelp)
      [] name = "EXIT" -> MatchWord(s, WordsExit)
      [] name = "SEARCH" -> MatchWordRest(s, WordsSearch)
      [] name = "STATS" -> MatchWord(s, WordsStats)
      [] name = "SORT" -> MatchWordKeyOption(s, WordsSort, SortKeys, SortDirs)

\* The object COMMAND_ALIASES
AliasKeys == {<<"a">>, <<"c">>, <<"i">>, <<"t">>, <<"d">>, <<"e">>, <<"l">>, <<"c","c">>, <<"f">>, <<"h">>, <<"x">>, <<"s">>, <<"s","t">>}
COMMAND_ALIASES(key) ==
    CASE key = <<"a">> -> "ADD"
      [] key = <<"c">> -> "COMPLETE"
      [] key = <<"i">> -> "INCOMPLETE"
      [] key = <<"t">> -> "TOGGLE"
      [] key = <<"d">> -> "DELETE"
      [] key = <<"e">> -> "EDIT"
      [] key = <<"l">> -> "LIST"
      [] key = <<"c","c">> -> "CLEAR_COMPLETED"
      [] key = <<"f">> -> "FILTER"
      [] key = <<"h">> -> "HELP"
      [] key = <<"x">> -> "EXIT"
      [] key = <<"s">> -> "SEARCH"
      [] key = <<"s","t">> -> "STATS"

\* Lower-case names every object inherits from Object.prototype: COMMAND_ALIASES[name]
\* is a truthy value that is no key of COMMAND_TYPES
InheritedKeys == {<<"c","o","n","s","t","r","u","c","t","o","r">>, <<"_","_","p","r","o","t","o","_","_">>}

\* The title left as it was typed, quotes included
keepQuotes(title) == title

\* Stripping that takes a quote at either end for a pair of quotes
stripEitherQuote(title) ==
    IF Len(title) >= 2 /\ (title[1] = Quote \/ title[Len(title)] = Quote)
    THEN SubSeq(title, 2, Len(title) - 1)
    ELSE title

\* title.match(/^"(.*)"$/) and, on a match, the text between the quotes
stripQuotes(title) ==
    IF Len(title) >= 2 /\ title[1] = Quote /\ title[Len(title)] = Quote
       /\ \A i \in 1..Len(title) : IsDot(title[i])
    THEN SubSeq(title, 2, Len(title) - 1)
    ELSE title

\* args[i] of JavaScript (0-based)
Arg(args, i) == args[i + 1]

\* createCommandFromMatch(commandName, match), with args the capture groups
createCommandFromMatch(commandName, args) ==
    CASE commandName = "ADD" ->
           Command(ADD_TODO,
                   [EmptyPayload EXCEPT !.keys = {"title"},
                                        !.title = stripQuotes(trim(Arg(args, 1)))], {})
      [] commandName = "COMPLETE" ->
           Command(COMPLETE_TODO,
                   [EmptyPayload EXCEPT !.keys = {"id"}, !.id = parseInt(Arg(args, 1))], {})
      [] commandName = "INCOMPLETE" ->
           Command(INCOMPLETE_TODO,
                   [EmptyPayload EXCEPT !.keys = {"id"}, !.id = parseInt(Arg(args, 1))], {})
      [] commandName = "TOGGLE" ->
           Command(TOGGLE_TODO,
                   [EmptyPayload EXCEPT !.keys = {"id"}, !.id = parseInt(Arg(args, 1))], {})
      [] commandName = "DELETE" ->
           Command(DELETE_TODO,
                   [EmptyPayload EXCEPT !.keys = {"id"}, !.id = parseInt(Arg(args, 1))], {})
      [] commandName = "EDIT" ->
           Command(EDIT_TODO,
                   [EmptyPayload EXCEPT !.keys = {"id", "title"},
                                        !.id = parseInt(Arg(args, 1)),
                                        !.title = stripQuotes(trim(Arg(args, 2)))], {})
      [] commandName = "LIST" ->
           Command(LIST_TODOS,
                   [EmptyPayload EXCEPT !.keys = {"filter"},
                        !.filter = toLowerCase(IF Arg(args, 1) = NoText THEN ALL
                                               ELSE Arg(args, 1))], {})
      [] commandName = "CLEAR_COMPLETED" -> Command(CLEAR_COMPLETED, EmptyPayload, {})
      [] commandName = "FILTER" ->
           Command(FILTER_TODOS,
                   [EmptyPayload EXCEPT !.keys = {"filter"},
                                        !.filter = toLowerCase(Arg(args, 0))], {})
      [] commandName = "HELP" -> Command(HELP, EmptyPayload, {})
      [] commandName = "EXIT" -> Command(EXIT, EmptyPayload, {})
      [] commandName = "SEARCH" ->
           Command(LIST_TODOS,
                   [EmptyPayload EXCEPT !.keys = {"filter", "searchTerm"},
                                        !.filter = ALL,
                                        !.searchTerm = stripQuotes(trim(Arg(args, 1)))],
                   {"search"})
      [] commandName = "STATS" ->
           Command(LIST_TODOS,
                   [EmptyPayload EXCEPT !.keys = {"filter"}, !.filter = ALL], {"stats"})
      [] commandName = "SORT" ->
           Command(LIST_TODOS,
                   [EmptyPayload EXCEPT !.keys = {"filter", "sortBy", "ascending"},
                                        !.filter = ALL,
                                        !.sortBy = toLowerCase(Arg(args, 0)),
                                        !.ascending = (Arg(args, 1) # <<"d","e","s","c">>)],
                   {"sort"})

\* The loop over the patterns run to its end: the last pattern that matches
RECURSIVE LastMatch(_, _)
LastMatch(s, k) ==
    IF k > Len(PatternNames) THEN 0
    ELSE IF LastMatch(s, k + 1) # 0 THEN LastMatch(s, k + 1)
    ELSE IF COMMAND_PATTERNS(PatternNames[k], s) # NoMatch THEN k
    ELSE 0

\* The first pattern, in the order of Object.entries(COMMAND_PATTERNS), that matches
RECURSIVE FirstMatch(_, _)
FirstMatch(s, k) ==
    IF k > Len(PatternNames) THEN 0
    ELSE IF COMMAND_PATTERNS(PatternNames[k], s) # NoMatch THEN k
    ELSE FirstMatch(s, k + 1)

\* The loop of parseCommand over the patterns, and its last return
matchPatterns(trimmedInput) ==
    Const(FirstMatch(trimmedInput, 1), LAMBDA k :
        IF k # 0
        THEN Const(COMMAND_PATTERNS(PatternNames[k], trimmedInput), LAMBDA args :
                 createCommandFromMatch(PatternNames[k], args))
        ELSE Command(UNKNOWN,
                     [EmptyPayload EXCEPT !.keys = {"input"}, !.input = trimmedInput],
                     {}))

\* parseCommand(input) for a string input
parseCommand(input) ==
    IF trim(input) = <<>>
    THEN Command(UNKNOWN, [EmptyPayload EXCEPT !.keys = {"input"}, !.input = input],
                 {"error"})
    ELSE Const(trim(input), LAMBDA trimmedInput :
           Const(toLowerCase(trimmedInput), LAMBDA lowerInput :
             IF lowerInput \in AliasKeys
             THEN Command(CommandTypeOf(COMMAND_ALIASES(lowerInput)),
                          [EmptyPayload EXCEPT !.keys = {"input"}, !.input = trimmedInput],
                          {})
             ELSE IF lowerInput \in InheritedKeys
             THEN Command(Undefined,
                          [EmptyPayload EXCEPT !.keys = {"input"}, !.input = trimmedInput],
                          {})
             ELSE matchPatterns(trimmedInput)))

\* parseCommand on the texts of the model, evaluated once
Parsed == [s \in KnownTexts |-> parseCommand(s)]

\* parseMultipleCommands(input) for a string input
parseMultipleCommands(input) ==
    [i \in 1..Len(commandStrings(input)) |-> Parsed[commandStrings(input)[i]]]

\* validateParsedCommand(command).isValid
validateParsedCommand(command) ==
    /\ command.type # Undefined
    /\ command.type = ADD_TODO => command.payload.title \notin {NoText, <<>>}
    /\ command.type \in {COMPLETE_TODO, INCOMPLETE_TODO, TOGGLE_TODO, DELETE_TODO}
          => command.payload.id # NoId
    /\ command.type = EDIT_TODO
          => command.payload.id # NoId /\ command.payload.title \notin {NoText, <<>>}

----------------------------------------------------------------------------
(* Validation utilities *)

\* validateTodoInput(title): "" when valid, else the first error
validateTodoInput(title) ==
    IF title = NoText THEN "Todo title is required"
    ELSE IF trim(title) = <<>> THEN "Todo title cannot be empty"
    ELSE IF Len(title) > MaxTitleLength THEN "Todo title is too long"
    ELSE ""

\* validateTodoId(id): "" when valid, else the error
validateTodoId(id) ==
    IF id = NoId THEN "Todo ID is required"
    ELSE IF id < 1 THEN "Todo ID must be a positive integer"
    ELSE ""

----------------------------------------------------------------------------
(* Todo item *)

NoTime == 0 - 1

\* new Todo(id, title, completed, createdAt, updatedAt) at time t; a missing
\* timestamp is the current time
Todo(id, title, completed, createdAt, updatedAt, t) ==
    [id |-> id, title |-> trim(title), completed |-> completed,
     createdAt |-> IF createdAt = NoTime THEN t ELSE createdAt,
     updatedAt |-> IF updatedAt = NoTime THEN t ELSE updatedAt]

complete(todo, t) == [todo EXCEPT !.completed = TRUE, !.updatedAt = t]
uncomplete(todo, t) == [todo EXCEPT !.completed = FALSE, !.updatedAt = t]
toggle(todo, t) == [todo EXCEPT !.completed = ~@, !.updatedAt = t]

\* updateTitle throws when the new title is empty after trimming
updateTitleThrows(newTitle) == newTitle = <<>> \/ trim(newTitle) = <<>>
updateTitle(todo, newTitle, t) == [todo EXCEPT !.title = trim(newTitle), !.updatedAt = t]

----------------------------------------------------------------------------
(* Application state: the record [todos, nextId, currentView] *)

AppState(todoList, next, view) ==
    [todos |-> todoList, nextId |-> next, currentView |-> view]

\* addTodo with its comparison todo.id >= nextId made strict: nextId stays behind
addTodoStrict(st, todo) ==
    [st EXCEPT !.todos = Append(@, todo),
               !.nextId = IF todo.id > @ THEN todo.id + 1 ELSE @]

\* addTodo that sets nextId to one more than the number of todos
addTodoCounting(st, todo) ==
    [st EXCEPT !.todos = Append(@, todo), !.nextId = Len(st.todos) + 2]

addTodo(st, todo) ==
    [st EXCEPT !.todos = Append(@, todo),
               !.nextId = IF todo.id >= @ THEN todo.id + 1 ELSE @]

\* Index of the first todo with this id, 0 when there is none
RECURSIVE IndexOfId(_, _, _)
IndexOfId(todoList, id, k) ==
    IF k > Len(todoList) THEN 0
    ELSE IF todoList[k].id = id THEN k
    ELSE IndexOfId(todoList, id, k + 1)

\* findTodoById that yields the first todo whatever its id
findFirstTodo(st, id) == IF st.todos = <<>> THEN 0 ELSE 1

findTodoById(st, id) == IndexOfId(st.todos, id, 1)

\* updateTodo that replaces every todo with the id
updateEveryTodo(st, updatedTodo) ==
    [st EXCEPT !.todos = [i \in 1..Len(st.todos) |->
                            IF st.todos[i].id = updatedTodo.id THEN updatedTodo
                            ELSE st.todos[i]]]

updateTodo(st, updatedTodo) ==
    LET index == IndexOfId(st.todos, updatedTodo.id, 1)
    IN  IF index # 0 THEN [st EXCEPT !.todos[index] = updatedTodo] ELSE st

\* removeTodo that takes out the first todo with the id only
removeFirstTodo(st, id) ==
    [st EXCEPT !.todos =
        IF IndexOfId(@, id, 1) = 0 THEN @
        ELSE SubSeq(@, 1, IndexOfId(@, id, 1) - 1)
             \o SubSeq(@, IndexOfId(@, id, 1) + 1, Len(@))]

removeTodo(st, id) ==
    [st EXCEPT !.todos = SelectSeq(@, LAMBDA todo : todo.id # id)]

\* getFilteredTodos whose completed view does not filter
getFilteredTodosLoose(st) ==
    CASE st.currentView = ACTIVE -> SelectSeq(st.todos, LAMBDA todo : ~todo.completed)
      [] OTHER -> st.todos

getFilteredTodos(st) ==
    CASE st.currentView = ACTIVE -> SelectSeq(st.todos, LAMBDA todo : ~todo.completed)
      [] st.currentView = COMPLETED -> SelectSeq(st.todos, LAMBDA todo : todo.completed)
      [] OTHER -> st.todos

setCurrentViewThrows(view) == view \notin Views
setCurrentView(st, view) == [st EXCEPT !.currentView = view]

----------------------------------------------------------------------------
(* Persistence: the data file *)

\* A file that does not exist, and one whose content is no JSON
MissingFile == [kind |-> "missing"]
InvalidFile == [kind |-> "invalid"]

\* What saveTodosToFile writes when it is handed the array of todos instead of the
\* state: nextId and currentView are those of DEFAULT_DATA
toJSONOfArray(st) ==
    [kind |-> "json", todos |-> st.todos, todosIsArray |-> TRUE,
     nextId |-> 1, nextIdIsNumber |-> TRUE, currentView |-> ALL]

\* JSON.stringify({...DEFAULT_DATA, ...appState}): every property is present
toJSON(st) ==
    [kind |-> "json", todos |-> st.todos, todosIsArray |-> TRUE,
     nextId |-> st.nextId, nextIdIsNumber |-> TRUE, currentView |-> st.currentView]

\* How a call of the save function ends: it writes the file and returns true, it
\* fails to write and returns false, or it throws
SaveOutcomes == {"ok", "false", "throw"}

\* A save that writes the todos only, next to the nextId and currentView it finds
saveTodosOnly(st, file, outcome) ==
    IF outcome # "ok" THEN file
    ELSE IF file.kind = "json" THEN [file EXCEPT !.todos = st.todos]
    ELSE toJSON(st)

\* The file after saveFunction(appState): written on success, else left as it was
saveTodosToFile(st, file, outcome) ==
    IF outcome = "ok" THEN toJSON(st) ELSE file

\* ensureDataCompatibility(data) for a parsed object
ensureDataCompatibility(data) ==
    [data EXCEPT
       !.todos = IF data.todosIsArray THEN @ ELSE <<>>,
       !.todosIsArray = TRUE,
       !.nextId = IF data.nextIdIsNumber /\ @ >= 1 THEN @ ELSE 1,
       !.nextIdIsNumber = TRUE,
       !.currentView = IF @ \in Views THEN @ ELSE ALL]

DefaultData ==
    [kind |-> "json", todos |-> <<>>, todosIsArray |-> TRUE,
     nextId |-> 1, nextIdIsNumber |-> TRUE, currentView |-> ALL]

\* loadTodosFromFile(filePath)
loadTodosFromFile(file) ==
    IF file.kind = "json" THEN ensureDataCompatibility(file) ELSE DefaultData

\* Date.now() as an id: far above every id the application allocates
EpochId == 1000 + MaxTodos
RecoveryTitle == <<"R">>

\* A title that is no string (a number, say): title.trim is not a function
NotAString == <<"not a string">>

\* Todo.fromObject(obj) throws when id or title is missing, and new Todo throws
\* when the title is no string
fromObjectThrows(obj) == obj.id = NoId \/ obj.title \in {NoText, NotAString}

\* The recovery in the catch block throws as well: new Todo is called with the same
\* title, and nothing catches inside the map
recoveryThrows(obj) == obj.title = NotAString

\* One entry of data.todos as a Todo instance, at time t
todoInstance(obj, t) ==
    IF fromObjectThrows(obj)
    THEN Todo(IF obj.id \in {NoId, 0} THEN EpochId + t ELSE obj.id,
              IF obj.title \in {NoText, <<>>} THEN RecoveryTitle ELSE obj.title,
              obj.completed, obj.createdAt, obj.updatedAt, t)
    ELSE Todo(obj.id, obj.title, obj.completed, obj.createdAt, obj.updatedAt, t)

\* loadTodosAsInstances(filePath) followed by new AppState(...); an error thrown out
\* of the map is caught by the outer catch, which returns the empty default
loadTodosAsInstances(file, t) ==
    LET data == loadTodosFromFile(file)
    IN  IF \E i \in 1..Len(data.todos) : recoveryThrows(data.todos[i])
        THEN AppState(<<>>, 1, ALL)
        ELSE AppState([i \in 1..Len(data.todos) |-> todoInstance(data.todos[i], t)],
                      data.nextId, data.currentView)

----------------------------------------------------------------------------
(* Operation handlers.  A handler takes the application state st, the data  *)
(* file, its arguments, whether a save function was passed, the outcome of  *)
(* the save and the current time; it yields the record Done(...) or         *)
(* Thrown(...).                                                             *)

NoTodo ==
    [id |-> NoId, title |-> NoText, completed |-> FALSE,
     createdAt |-> NoTime, updatedAt |-> NoTime]

NoStats == [total |-> 0, active |-> 0, completed |-> 0, completedPercentage |-> 0]

\* What a handler returns; saves counts the calls of the save function.  The fields
\* success and command are those of the Result the router makes of it.
Done(st, file, saves) ==
    [st |-> st, file |-> file, saves |-> saves, threw |-> FALSE, error |-> "",
     success |-> TRUE, command |-> Undefined,
     todo |-> NoTodo, text |-> "", msgTitle |-> NoText, oldTitle |-> NoText,
     todos |-> <<>>, count |-> 0, stats |-> NoStats, exit |-> FALSE,
     saveSuccess |-> FALSE]

\* A handler that has set the view to all by the time it throws
ThrownAfterView(st, file, error) ==
    [Done([st EXCEPT !.currentView = ALL], file, 0)
     EXCEPT !.threw = TRUE, !.success = FALSE, !.error = error]

\* A handler that throws Error(error)
Thrown(st, file, error) ==
    [Done(st, file, 0) EXCEPT !.threw = TRUE, !.success = FALSE, !.error = error]

NotFound == "Todo with ID not found"

\* Saved without the try block around the save: a save that throws makes the
\* handler throw
SavedUnguarded(st, file, hasSave, outcome) ==
    IF hasSave /\ outcome = "throw"
    THEN [Done(st, file, 1) EXCEPT !.threw = TRUE, !.success = FALSE,
                                   !.error = "save failed"]
    ELSE [Done(st, IF hasSave /\ outcome = "ok" THEN toJSON(st) ELSE file,
               IF hasSave THEN 1 ELSE 0)
          EXCEPT !.saveSuccess = hasSave /\ outcome = "ok"]

\* The try block every handler wraps its save in: a save that throws is logged, and
\* saveSuccess stays false
Saved(st, file, hasSave, outcome) ==
    [Done(st, IF hasSave THEN saveTodosToFile(st, file, outcome) ELSE file,
          IF hasSave THEN 1 ELSE 0)
     EXCEPT !.saveSuccess = hasSave /\ outcome = "ok"]

addTodoWithPersistence(st, file, title, hasSave, outcome, t) ==
    IF validateTodoInput(title) # "" THEN Thrown(st, file, validateTodoInput(title))
    ELSE LET newTodo == Todo(st.nextId, trim(title), FALSE, NoTime, NoTime, t)
         IN  [Saved(addTodo(st, newTodo), file, hasSave, outcome)
              EXCEPT !.todo = newTodo, !.count = Len(st.todos) + 1]

completeTodoWithPersistence(st, file, id, hasSave, outcome, t) ==
    IF validateTodoId(id) # "" THEN Thrown(st, file, validateTodoId(id))
    ELSE IF findTodoById(st, id) = 0 THEN Thrown(st, file, NotFound)
    ELSE LET todo == complete(st.todos[findTodoById(st, id)], t)
         IN  [Saved(updateTodo(st, todo), file, hasSave, outcome)
              EXCEPT !.todo = todo, !.text = "marked as complete",
                     !.msgTitle = todo.title]

incompleteTodoWithPersistence(st, file, id, hasSave, outcome, t) ==
    IF validateTodoId(id) # "" THEN Thrown(st, file, validateTodoId(id))
    ELSE IF findTodoById(st, id) = 0 THEN Thrown(st, file, NotFound)
    ELSE LET todo == uncomplete(st.todos[findTodoById(st, id)], t)
         IN  [Saved(updateTodo(st, todo), file, hasSave, outcome)
              EXCEPT !.todo = todo, !.text = "marked as incomplete",
                     !.msgTitle = todo.title]

toggleTodoWithPersistence(st, file, id, hasSave, outcome, t) ==
    IF validateTodoId(id) # "" THEN Thrown(st, file, validateTodoId(id))
    ELSE IF findTodoById(st, id) = 0 THEN Thrown(st, file, NotFound)
    ELSE LET wasCompleted == st.todos[findTodoById(st, id)].completed
             todo == toggle(st.todos[findTodoById(st, id)], t)
         IN  [Saved(updateTodo(st, todo), file, hasSave, outcome)
              EXCEPT !.todo = todo,
                     !.text = IF wasCompleted THEN "marked as incomplete"
                              ELSE "marked as complete",
                     !.msgTitle = todo.title]

deleteTodoWithPersistence(st, file, id, hasSave, outcome, t) ==
    IF validateTodoId(id) # "" THEN Thrown(st, file, validateTodoId(id))
    ELSE IF findTodoById(st, id) = 0 THEN Thrown(st, file, NotFound)
    ELSE LET todo == st.todos[findTodoById(st, id)]
         IN  [Saved(removeTodo(st, id), file, hasSave, outcome)
              EXCEPT !.todo = todo, !.text = "deleted successfully",
                     !.msgTitle = todo.title]

\* The loop of deleteMultipleTodosWithPersistence: each id deleted without a save
\* function, a failure collected and skipped; yields the state and the success count
RECURSIVE DeleteEach(_, _, _, _, _)
DeleteEach(st, file, ids, successCount, t) ==
    IF ids = <<>> THEN [st |-> st, successCount |-> successCount]
    ELSE LET r == deleteTodoWithPersistence(st, file, Head(ids), FALSE, "ok", t)
         IN  IF r.threw THEN DeleteEach(st, file, Tail(ids), successCount, t)
             ELSE DeleteEach(r.st, file, Tail(ids), successCount + 1, t)

deleteMultipleTodosWithPersistence(st, file, ids, hasSave, outcome, t) ==
    LET loop == DeleteEach(st, file, ids, 0, t)
    IN  [Saved(loop.st, file, hasSave /\ loop.successCount > 0, outcome)
         EXCEPT !.count = loop.successCount]

clearCompletedTodosWithPersistence(st, file, hasSave, outcome, t) ==
    LET completedTodos == SelectSeq(st.todos, LAMBDA todo : todo.completed)
        completedIds == [i \in 1..Len(completedTodos) |-> completedTodos[i].id]
        deleteResults ==
            deleteMultipleTodosWithPersistence(st, file, completedIds, hasSave, outcome, t)
    IN  IF Len(completedTodos) = 0
        THEN [Done(st, file, 0) EXCEPT !.text = "No completed todos to clear"]
        ELSE [deleteResults EXCEPT !.todos = completedTodos,
                                   !.count = Len(completedTodos),
                                   !.text = "completed todo(s) cleared"]

editTodoWithPersistence(st, file, id, newTitle, hasSave, outcome, t) ==
    IF validateTodoId(id) # "" THEN Thrown(st, file, validateTodoId(id))
    ELSE IF validateTodoInput(newTitle) # ""
    THEN Thrown(st, file, validateTodoInput(newTitle))
    ELSE IF findTodoById(st, id) = 0 THEN Thrown(st, file, NotFound)
    ELSE IF updateTitleThrows(newTitle) THEN Thrown(st, file, "Todo title cannot be empty")
    ELSE LET old == st.todos[findTodoById(st, id)]
             todo == updateTitle(old, newTitle, t)
         IN  [Saved(updateTodo(st, todo), file, hasSave, outcome)
              EXCEPT !.todo = todo, !.text = "Todo updated", !.oldTitle = old.title,
                     !.msgTitle = todo.title]

----------------------------------------------------------------------------
(* Listing, searching, sorting and statistics *)

BadFilter == "Filter must be all, active or completed"

\* listTodos(appState, filter): sets the current view, returns the filtered list
listTodosThrows(filter) == filter \notin Views
\* listTodos that reads the list without setting the view
listTodosOnly(st, filter) == st

listTodos(st, filter) == setCurrentView(st, filter)

getTodoStats(st) ==
    LET total == Len(st.todos)
        done == Len(SelectSeq(st.todos, LAMBDA todo : todo.completed))
    IN  [total |-> total, active |-> total - done, completed |-> done,
         completedPercentage |->
             IF total > 0 THEN (200 * done + total) \div (2 * total) ELSE 0]

\* haystack.includes(needle)
includes(haystack, needle) ==
    \E i \in 0..(Len(haystack) - Len(needle)) :
        SubSeq(haystack, i + 1, i + Len(needle)) = needle

searchTodosThrows(searchTerm, filter) == searchTerm = NoText \/ filter \notin Views
searchTodos(st, searchTerm, filter) ==
    SelectSeq(getFilteredTodos(listTodos(st, filter)),
              LAMBDA todo : includes(toLowerCase(todo.title), toLowerCase(searchTerm)))

\* The characters of the model in the order of their UTF-16 code units
CodeOrder ==
    <<"\t", "\n", " ", Quote, "-">> \o Digits \o <<";", "?">> \o UpperLetters
        \o <<"_">> \o LowerLetters
CharCode(c) == CHOOSE i \in 1..Len(CodeOrder) : CodeOrder[i] = c

\* a < b for strings
RECURSIVE TextLess(_, _)
TextLess(a, b) ==
    IF b = <<>> THEN FALSE
    ELSE IF a = <<>> THEN TRUE
    ELSE IF Head(a) = Head(b) THEN TextLess(Tail(a), Tail(b))
    ELSE CharCode(Head(a)) < CharCode(Head(b))

SortFields == {<<"i","d">>, <<"t","i","t","l","e">>, <<"c","r","e","a","t","e","d","A","t">>, <<"u","p","d","a","t","e","d","A","t">>, <<"c","o","m","p","l","e","t","e","d">>}

\* valueA < valueB for the values of field sortBy of todos a and b
FieldLess(a, b, sortBy) ==
    CASE sortBy = <<"i","d">> -> a.id < b.id
      [] sortBy = <<"t","i","t","l","e">> -> TextLess(toLowerCase(a.title), toLowerCase(b.title))
      [] sortBy = <<"c","r","e","a","t","e","d","A","t">> -> a.createdAt < b.createdAt
      [] sortBy = <<"u","p","d","a","t","e","d","A","t">> -> a.updatedAt < b.updatedAt
      [] sortBy = <<"c","o","m","p","l","e","t","e","d">> -> ~a.completed /\ b.completed

\* The comparator of sortTodos: negative when a goes before b
Compare(a, b, sortBy, ascending) ==
    IF ascending
    THEN IF FieldLess(b, a, sortBy) THEN 1 ELSE IF FieldLess(a, b, sortBy) THEN 0 - 1 ELSE 0
    ELSE IF FieldLess(a, b, sortBy) THEN 1 ELSE IF FieldLess(b, a, sortBy) THEN 0 - 1 ELSE 0

\* Array.prototype.sort is stable: x goes after every element it does not precede
RECURSIVE InsertSorted(_, _, _, _)
InsertSorted(sorted, x, sortBy, ascending) ==
    IF sorted = <<>> THEN <<x>>
    ELSE IF Compare(x, Head(sorted), sortBy, ascending) < 0 THEN <<x>> \o sorted
    ELSE <<Head(sorted)>> \o InsertSorted(Tail(sorted), x, sortBy, ascending)

RECURSIVE SortBy(_, _, _, _)
SortBy(list, k, sortBy, ascending) ==
    IF k = 0 THEN <<>>
    ELSE InsertSorted(SortBy(list, k - 1, sortBy, ascending), list[k], sortBy, ascending)

sortTodosThrows(sortBy, filter) == sortBy \notin SortFields \/ filter \notin Views
sortTodos(st, sortBy, ascending, filter) ==
    LET shown == getFilteredTodos(listTodos(st, filter))
    IN  SortBy(shown, Len(shown), sortBy, ascending)

----------------------------------------------------------------------------
(* Command router.  A routed command yields the record Routed(...): the     *)
(* state and file afterwards, the number of saves, whether routeCommand     *)
(* threw instead of returning, and the Result it returned.                  *)

NoInput == <<"No input provided">>

\* The success Result {success: true, command: type, result: h}
Success(type, h) == [h EXCEPT !.success = TRUE, !.command = type, !.threw = FALSE]

\* The Result of the catch block: {success: false, error: message, command: type}
Failure(type, h) == [h EXCEPT !.success = FALSE, !.command = type, !.threw = FALSE]

\* routeCommand rejects instead of returning a Result
Raised(st, file, error) == Thrown(st, file, error)

\* The try block of routeCommand around a handler's completion h: Success(type, h)
\* when the handler returned, Failure(type, h) when it threw
Caught(type, h) == [h EXCEPT !.command = type, !.threw = FALSE]

handleAddTodo(st, file, command, outcome, t) ==
    Caught(ADD_TODO,
           addTodoWithPersistence(st, file, command.payload.title, TRUE, outcome, t))

handleCompleteTodo(st, file, command, outcome, t) ==
    Caught(COMPLETE_TODO,
           completeTodoWithPersistence(st, file, command.payload.id, TRUE, outcome, t))

handleIncompleteTodo(st, file, command, outcome, t) ==
    Caught(INCOMPLETE_TODO,
           incompleteTodoWithPersistence(st, file, command.payload.id, TRUE, outcome, t))

handleToggleTodo(st, file, command, outcome, t) ==
    Caught(TOGGLE_TODO,
           toggleTodoWithPersistence(st, file, command.payload.id, TRUE, outcome, t))

\* handleDeleteTodo that passes no save function on
handleDeleteTodoUnsaved(st, file, command, outcome, t) ==
    Caught(DELETE_TODO,
           deleteTodoWithPersistence(st, file, command.payload.id, FALSE, outcome, t))

handleDeleteTodo(st, file, command, outcome, t) ==
    Caught(DELETE_TODO,
           deleteTodoWithPersistence(st, file, command.payload.id, TRUE, outcome, t))

handleEditTodo(st, file, command, outcome, t) ==
    Caught(EDIT_TODO,
           editTodoWithPersistence(st, file, command.payload.id, command.payload.title,
                                   TRUE, outcome, t))

\* Listed followed by a save of the state
ListedAndSaved(st, file, filter, list, withStats) ==
    [Saved(listTodos(st, filter), file, TRUE, "ok")
     EXCEPT !.todos = list, !.count = Len(list),
            !.stats = IF withStats THEN getTodoStats(st) ELSE NoStats]

\* The result of the list branch of handleListTodos that returned list
Listed(st, file, filter, list, withStats) ==
    [Done(listTodos(st, filter), file, 0)
     EXCEPT !.todos = list, !.count = Len(list),
            !.stats = IF withStats THEN getTodoStats(st) ELSE NoStats]

handleListTodos(st, file, command, outcome, t) ==
    LET pl == command.payload
        withStats == "stats" \in command.meta
    IN  Caught(LIST_TODOS,
               IF "search" \in command.meta
               THEN IF searchTodosThrows(pl.searchTerm, pl.filter)
                    THEN Thrown(st, file, BadFilter)
                    ELSE Listed(st, file, pl.filter,
                                searchTodos(st, pl.searchTerm, pl.filter), withStats)
               ELSE IF "sort" \in command.meta
               THEN IF sortTodosThrows(pl.sortBy, pl.filter)
                    THEN Thrown(st, file, "Sort by must be one of the sort fields")
                    ELSE Listed(st, file, pl.filter,
                                sortTodos(st, pl.sortBy, pl.ascending, pl.filter),
                                withStats)
               ELSE IF listTodosThrows(pl.filter)
                    THEN Thrown(st, file, BadFilter)
                    ELSE Listed(st, file, pl.filter,
                                getFilteredTodos(listTodos(st, pl.filter)), withStats))

handleClearCompleted(st, file, command, outcome, t) ==
    Caught(CLEAR_COMPLETED, clearCompletedTodosWithPersistence(st, file, TRUE, outcome, t))

handleFilterTodos(st, file, command, outcome, t) ==
    LET filter == command.payload.filter
    IN  IF setCurrentViewThrows(filter)
        THEN Failure(FILTER_TODOS, Thrown(st, file, "Invalid view"))
        ELSE Success(FILTER_TODOS,
                     [Done(listTodos(setCurrentView(st, filter), filter), file, 0)
                      EXCEPT !.todos = getFilteredTodos(setCurrentView(st, filter)),
                             !.text = "Now showing todos"])

handleHelp(st, file, command, outcome, t) ==
    Success(HELP, [Done(st, file, 0) EXCEPT !.text = "Todo Application Commands"])

handleExit(st, file, command, outcome, t) ==
    Success(EXIT, [Done(st, file, 0) EXCEPT !.exit = TRUE,
                                            !.text = "Exiting application..."])

handleUnknownCommand(st, file, command, outcome, t) ==
    Failure(UNKNOWN,
            [Done(st, file, 0) EXCEPT
                !.text = "Unknown command",
                !.msgTitle = IF command.payload.input \in {NoText, <<>>}
                             THEN NoInput ELSE command.payload.input])

\* routeCommand(command) at time t, the save function ending as outcome says
routeCommand(st, file, command, outcome, t) ==
    IF command.type = Undefined
    THEN Raised(st, file, "Invalid command: command must have a type")
    ELSE CASE command.type = ADD_TODO -> handleAddTodo(st, file, command, outcome, t)
           [] command.type = COMPLETE_TODO ->
                handleCompleteTodo(st, file, command, outcome, t)
           [] command.type = INCOMPLETE_TODO ->
                handleIncompleteTodo(st, file, command, outcome, t)
           [] command.type = TOGGLE_TODO -> handleToggleTodo(st, file, command, outcome, t)
           [] command.type = DELETE_TODO -> handleDeleteTodo(st, file, command, outcome, t)
           [] command.type = EDIT_TODO -> handleEditTodo(st, file, command, outcome, t)
           [] command.type = LIST_TODOS -> handleListTodos(st, file, command, outcome, t)
           [] command.type = CLEAR_COMPLETED ->
                handleClearCompleted(st, file, command, outcome, t)
           [] command.type = FILTER_TODOS ->
                handleFilterTodos(st, file, command, outcome, t)
           [] command.type = HELP -> handleHelp(st, file, command, outcome, t)
           [] command.type = EXIT -> handleExit(st, file, command, outcome, t)
           [] OTHER -> handleUnknownCommand(st, file, command, outcome, t)

----------------------------------------------------------------------------
(* Input processing *)

\* validateInput(input).isValid
validateInput(input) == trim(input) # <<>> /\ Len(input) <= MaxInputLength

\* A Result made outside the router: validation or processing error
Rejected(st, file, kind, error) ==
    [Failure(kind, Thrown(st, file, error)) EXCEPT !.text = error]

\* processCommand(input, commandParser, commandRouter); Parsed[input] is
\* commandParser.parseCommand(input)
processCommand(st, file, input, outcome, t) ==
    IF ~validateParsedCommand(Parsed[input])
    THEN Rejected(st, file, "VALIDATION_ERROR", "Command validation failed")
    ELSE IF routeCommand(st, file, Parsed[input], outcome, t).threw
    THEN Rejected(st, file, "PROCESSING_ERROR", "Error processing command")
    ELSE routeCommand(st, file, Parsed[input], outcome, t)

\* For each line of the model: sanitizeInput(line) and whether validateInput accepts
\* that text
Sanitized ==
    [rawInput \in InputLines \cup AddLines |->
        [text |-> sanitizeInput(rawInput),
         valid |-> validateInput(sanitizeInput(rawInput))]]

\* processRawInput(rawInput, commandParser, commandRouter)
processRawInput(st, file, rawInput, outcome, t) ==
    IF ~Sanitized[rawInput].valid
    THEN Rejected(st, file, "INPUT_VALIDATION_ERROR", "Invalid input")
    ELSE processCommand(st, file, Sanitized[rawInput].text, outcome, t)

\* Data files found at the first start: none, one that is no JSON, and a JSON object
\* holding one todo, its title ' a' with a leading blank, but neither nextId nor a
\* valid currentView
StartFiles ==
    {MissingFile, InvalidFile,
     [kind |-> "json",
      todos |-> <<[id |-> 2, title |-> <<" ","a">>, completed |-> TRUE,
                   createdAt |-> 0, updatedAt |-> 0]>>,
      todosIsArray |-> TRUE, nextId |-> 0, nextIdIsNumber |-> FALSE,
      currentView |-> NoText]}

----------------------------------------------------------------------------
(* State *)

VARIABLES
    todos,        \* appState.todos
    nextId,       \* appState.nextId
    currentView,  \* appState.currentView
    file,         \* the content of the data file
    now,          \* the clock read by new Date()
    phase,        \* "boot", "running", "batch" (inside processMultipleCommands), "closed"
    queue,        \* the commands of the batch not yet routed
    results,      \* the results array of processMultipleCommands
    failures,     \* the number of saves that have failed
    last          \* the last input processed and what came of it

vars == <<todos, nextId, currentView, file, now, phase, queue, results, failures, last>>

appState == AppState(todos, nextId, currentView)

NoCommand == Command(Undefined, EmptyPayload, {})

\* What is recorded about a processed input: how it came in ("line" of the main
\* loop, "batch" for a command of processMultipleCommands, "load", "quit", "none"),
\* the input, the command parsed from it, the application state before, how the save
\* ended ("none" when there was no save), and the Result r
Record(via, input, command, pre, outcome, r) ==
    [via |-> via, input |-> input, command |-> command, pre |-> pre,
     outcome |-> outcome, r |-> r]

Nothing(st, f) == Done(st, f, 0)

Init ==
    /\ todos = <<>>
    /\ nextId = 1
    /\ currentView = ALL
    /\ file \in StartFiles
    /\ now = 0
    /\ phase = "boot"
    /\ queue = <<>>
    /\ results = <<>>
    /\ failures = 0
    /\ last = Record("none", NoText, NoCommand, AppState(<<>>, 1, ALL), "none",
                     Nothing(AppState(<<>>, 1, ALL), file))

\* The clock advances
Tick ==
    /\ now < MaxClock
    /\ now' = now + 1
    /\ UNCHANGED <<todos, nextId, currentView, file, phase, queue, results, failures,
                    last>>

\* mainLoopWithAsyncHandler starts: the file is loaded into a new AppState
Load ==
    /\ phase = "boot"
    /\ LET st == loadTodosAsInstances(file, now)
       IN  /\ todos' = st.todos
           /\ nextId' = st.nextId
           /\ currentView' = st.currentView
           /\ last' = Record("load", NoText, NoCommand, appState, "none",
                             Nothing(st, file))
    /\ phase' = "running"
    /\ queue' = <<>>
    /\ results' = <<>>
    /\ UNCHANGED <<file, now, failures>>

\* The model keeps the list within MaxTodos items and the ids within MaxTodos + 1
Room(command) ==
    command.type = ADD_TODO => Len(todos) < MaxTodos /\ nextId <= MaxTodos + 1

\* The lines handleInput takes as a request to leave, before any parsing
QuitWords == {<<"e","x","i","t">>, <<"q","u","i","t">>, <<"x">>}

\* For each line of the model: whether the loop takes it as a request to leave, the
\* command parsed from it when it is valid input, and what processRawInput makes of
\* it: the kind of the Result when the line is rejected before routing, else the type
\* of the command routed
Lines ==
    [line \in InputLines \cup AddLines |->
        [quit |-> toLowerCase(trim(line)) \in QuitWords,
         command |-> IF Sanitized[line].valid THEN Parsed[Sanitized[line].text]
                     ELSE NoCommand,
         kind |-> IF ~Sanitized[line].valid THEN "INPUT_VALIDATION_ERROR"
                  ELSE IF ~validateParsedCommand(Parsed[Sanitized[line].text])
                  THEN "VALIDATION_ERROR"
                  ELSE Parsed[Sanitized[line].text].type]]

\* handleInput(line) of the main loop for exit, quit and x: the loop ends at once
Quit ==
    /\ phase = "running"
    /\ \E line \in InputLines :
         /\ Lines[line].quit
         /\ last' = Record("quit", line, NoCommand, appState, "none",
                           Nothing(appState, file))
    /\ phase' = "closed"
    /\ results' = <<>>
    /\ UNCHANGED <<todos, nextId, currentView, file, now, queue, failures>>

\* The save function of the main loop is saveTodosToFile, which never throws.  Under
\* the main loop the model lets every write succeed; saves that return false or
\* throw are those of the save function handed to processMultipleCommands.
LoopOutcomes == {"ok"}

\* The model lets at most MaxSaveFailures saves fail
Outcomes(possible) == IF failures < MaxSaveFailures THEN possible ELSE {"ok"}

Failed(outcome) == IF outcome \in {"false", "throw"} THEN failures + 1 ELSE failures

\* handleInput(line) of the main loop for a line it does not take as a request to
\* leave: processRawInput, then the loop ends if the Result is that of Exit
HandleLines(lines, kinds) ==
    /\ phase = "running"
    /\ \E line \in lines, outcome \in Outcomes(LoopOutcomes) :
         /\ ~Lines[line].quit
         /\ Lines[line].kind \in kinds
         /\ Room(Lines[line].command)
         /\ \E r \in {processRawInput(appState, file, line, outcome, now)} :
              /\ r.saves > 0 \/ outcome = "ok"
              /\ todos' = r.st.todos
              /\ nextId' = r.st.nextId
              /\ currentView' = r.st.currentView
              /\ file' = r.file
              /\ failures' = IF r.saves > 0 THEN Failed(outcome) ELSE failures
              /\ phase' = IF r.success /\ r.command = EXIT /\ r.exit
                          THEN "closed" ELSE "running"
              /\ last' = Record("line", line, Lines[line].command, appState,
                                IF r.saves > 0 THEN outcome ELSE "none", r)
    /\ results' = <<>>
    /\ UNCHANGED <<now, queue>>

HandleInput(kinds) == HandleLines(InputLines, kinds)

RejectInput ==
    /\ phase = "running"
    /\ HandleInput({"INPUT_VALIDATION_ERROR"})
RejectCommand ==
    /\ phase = "running"
    /\ HandleInput({"VALIDATION_ERROR"})
AddTodo ==
    /\ phase = "running"
    /\ HandleInput({ADD_TODO})
CompleteTodo ==
    /\ phase = "running"
    /\ HandleInput({COMPLETE_TODO})
IncompleteTodo ==
    /\ phase = "running"
    /\ HandleInput({INCOMPLETE_TODO})
ToggleTodo ==
    /\ phase = "running"
    /\ HandleInput({TOGGLE_TODO})
DeleteTodo ==
    /\ phase = "running"
    /\ HandleInput({DELETE_TODO})
EditTodo ==
    /\ phase = "running"
    /\ HandleInput({EDIT_TODO})
ListTodos ==
    /\ phase = "running"
    /\ HandleInput({LIST_TODOS})
ClearCompleted ==
    /\ phase = "running"
    /\ HandleInput({CLEAR_COMPLETED})
FilterTodos ==
    /\ phase = "running"
    /\ HandleInput({FILTER_TODOS})
Help ==
    /\ phase = "running"
    /\ HandleInput({HELP})
Exit ==
    /\ phase = "running"
    /\ HandleInput({EXIT})
UnknownCommand ==
    /\ phase = "running"
    /\ HandleInput({UNKNOWN})

\* processMultipleCommands(input): the input is parsed into the queue of commands
StartBatch ==
    /\ phase = "running"
    /\ Len(todos) < MaxTodos /\ nextId <= MaxTodos + 1
    /\ \E input \in BatchInputs :
         /\ queue' = parseMultipleCommands(input)
         /\ last' = Record("none", input, NoCommand, appState, "none",
                           Nothing(appState, file))
    /\ phase' = "batch"
    /\ results' = <<>>
    /\ UNCHANGED <<todos, nextId, currentView, file, now, failures>>

\* The loop of processMultipleCommands that goes on after an Exit command
NeverLeavesLoop(command, r) == FALSE

\* The break of the loop: the command was routed without a throw and is an Exit
LeavesLoop(command, r) == ~r.threw /\ command.type = EXIT

\* One turn of the loop of processMultipleCommands: the next command is routed, its
\* Result (or a PROCESSING_ERROR Result when routeCommand throws) pushed, and the loop
\* left after an Exit command or the last command
BatchStep ==
    /\ phase = "batch"
    /\ queue # <<>>
    /\ \E outcome \in Outcomes(SaveOutcomes) :
         \E r \in {routeCommand(appState, file, Head(queue), outcome, now)} :
           /\ r.saves > 0 \/ outcome = "ok"
           /\ todos' = r.st.todos
           /\ nextId' = r.st.nextId
           /\ currentView' = r.st.currentView
           /\ file' = r.file
           /\ failures' = IF r.saves > 0 THEN Failed(outcome) ELSE failures
           /\ results' = Append(results,
                                IF r.threw
                                THEN [kind |-> "PROCESSING_ERROR", success |-> FALSE]
                                ELSE [kind |-> r.command, success |-> r.success])
           /\ queue' = IF LeavesLoop(Head(queue), r) \/ Tail(queue) = <<>>
                       THEN <<>> ELSE Tail(queue)
           /\ phase' = IF LeavesLoop(Head(queue), r) \/ Tail(queue) = <<>>
                       THEN "running" ELSE "batch"
           /\ last' = Record("batch", Head(queue).payload.input, Head(queue), appState,
                             IF r.saves > 0 THEN outcome ELSE "none", r)
    /\ UNCHANGED now

\* The interactive loop
Next ==
    \/ Tick
    \/ Load
    \/ Quit
    \/ RejectInput
    \/ RejectCommand
    \/ AddTodo
    \/ CompleteTodo
    \/ IncompleteTodo
    \/ ToggleTodo
    \/ DeleteTodo
    \/ EditTodo
    \/ ListTodos
    \/ ClearCompleted
    \/ FilterTodos
    \/ Help
    \/ Exit
    \/ UnknownCommand

Spec == Init /\ [][Next]_vars

\* processMultipleCommands called on the loaded state
NextBatch ==
    \/ Tick
    \/ Load
    \/ StartBatch
    \/ BatchStep

SpecBatch == Init /\ [][NextBatch]_vars

\* A container made by new AppState(), before anything is loaded, that takes Add
\* commands only
InitAdd ==
    /\ todos = <<>>
    /\ nextId = 1
    /\ currentView = ALL
    /\ file \in StartFiles
    /\ now = 0
    /\ phase = "running"
    /\ queue = <<>>
    /\ results = <<>>
    /\ failures = 0
    /\ last = Record("none", NoText, NoCommand, AppState(<<>>, 1, ALL), "none",
                     Nothing(AppState(<<>>, 1, ALL), file))

AddMore ==
    /\ phase = "running"
    /\ HandleLines(AddLines, {ADD_TODO})

NextAdd ==
    \/ Tick
    \/ AddTodo
    \/ AddMore

SpecAdd == InitAdd /\ [][NextAdd]_vars

----------------------------------------------------------------------------
(* The parser alone: a text is drawn and parseCommand applied to it *)

Upper(s) ==
    [i \in 1..Len(s) |->
        IF \E j \in 1..26 : LowerLetters[j] = s[i]
        THEN UpperLetters[CHOOSE j \in 1..26 : LowerLetters[j] = s[i]]
        ELSE s[i]]

\* Every alias bare, in upper case, with white space around it and with an
\* argument; the names every object inherits; and the texts of the other
\* specifications
ParseTexts ==
    {lead \o word \o trail :
        lead \in {<<>>, <<" ">>},
        word \in AliasKeys \cup {Upper(key) : key \in AliasKeys},
        trail \in {<<>>, <<"\t">>, <<" ", "1">>}}
      \cup InheritedKeys \cup KnownTexts \cup InputLines \cup AddLines
      \cup {<<"b","o","g","u","s"," ","c","o","m","m","a","n","d">>,
            <<"v","i","e","w"," ","a","c","t","i","v","e">>,
            <<"a","d","d">>, <<"a","d","d"," ","a","\n","b">>, <<>>, <<"\n">>}

InitParse ==
    /\ todos = <<>>
    /\ nextId = 1
    /\ currentView = ALL
    /\ file = MissingFile
    /\ now = 0
    /\ phase = "parse"
    /\ queue = <<>>
    /\ results = <<>>
    /\ failures = 0
    /\ \E input \in ParseTexts :
         last = Record("none", input, NoCommand, appState, "none",
                       Nothing(appState, file))

Parse ==
    /\ phase = "parse"
    /\ last.via = "none"
    /\ last' = [last EXCEPT !.via = "parse", !.command = parseCommand(last.input)]
    /\ UNCHANGED <<todos, nextId, currentView, file, now, phase, queue, results,
                   failures>>

SpecParse == InitParse /\ [][Parse]_vars

----------------------------------------------------------------------------
(* Loading alone: the application starts on one of many data files *)

\* Entries of data.todos: two well-formed ones (the first with a title to trim), one
\* without id, one without title, and one whose title is a number
GoodEntry1 ==
    [id |-> 1, title |-> <<" ", "a">>, completed |-> TRUE, createdAt |-> 0,
     updatedAt |-> 0]
GoodEntry2 ==
    [id |-> 2, title |-> <<"b">>, completed |-> FALSE, createdAt |-> NoTime,
     updatedAt |-> NoTime]
EntryWithoutId == [GoodEntry2 EXCEPT !.id = NoId]
EntryWithoutTitle == [GoodEntry1 EXCEPT !.title = NoText]
EntryWithNumberTitle == [GoodEntry2 EXCEPT !.title = NotAString]

\* The todos property: no array, or an array of entries
LoadTodos ==
    {[isArray |-> FALSE, list |-> <<>>]}
      \cup {[isArray |-> TRUE, list |-> list] :
              list \in {<<>>, <<GoodEntry1>>, <<GoodEntry1, GoodEntry2>>,
                        <<GoodEntry1, EntryWithoutId>>,
                        <<EntryWithoutTitle, GoodEntry2>>,
                        <<GoodEntry1, EntryWithNumberTitle>>}}

\* The nextId property: missing, 0, or 3
LoadNextIds ==
    {[isNumber |-> FALSE, value |-> 0], [isNumber |-> TRUE, value |-> 0],
     [isNumber |-> TRUE, value |-> 3]}

\* The currentView property: missing, 'done', or 'completed'
LoadViews == {NoText, <<"d","o","n","e">>, COMPLETED}

LoadFiles ==
    {MissingFile, InvalidFile}
      \cup {[kind |-> "json", todos |-> t.list, todosIsArray |-> t.isArray,
              nextId |-> n.value, nextIdIsNumber |-> n.isNumber, currentView |-> v] :
              t \in LoadTodos, n \in LoadNextIds, v \in LoadViews}

InitLoad ==
    /\ todos = <<>>
    /\ nextId = 1
    /\ currentView = ALL
    /\ file \in LoadFiles
    /\ now = 0
    /\ phase = "boot"
    /\ queue = <<>>
    /\ results = <<>>
    /\ failures = 0
    /\ last = Record("none", NoText, NoCommand, AppState(<<>>, 1, ALL), "none",
                     Nothing(AppState(<<>>, 1, ALL), file))

NextLoad ==
    \/ Tick
    \/ Load

SpecLoad == InitLoad /\ [][NextLoad]_vars

----------------------------------------------------------------------------
(* The quote stripping alone: a text is drawn and stripped, then stripped   *)
(* again                                                                    *)

MaxTextLen == 4

QuoteChars == {Quote, "a", "\n"}

QuoteTexts == UNION {[1..k -> QuoteChars] : k \in 0..MaxTextLen}

InitStrip ==
    /\ todos = <<>>
    /\ nextId = 1
    /\ currentView = ALL
    /\ file = MissingFile
    /\ now = 0
    /\ phase = "strip"
    /\ queue = <<>>
    /\ results = <<>>
    /\ failures = 0
    /\ \E title \in QuoteTexts :
         last = Record("none", title, NoCommand, appState, "none",
                       Nothing(appState, file))

\* The text is stripped: last.r.msgTitle is the result
Strip ==
    /\ phase = "strip"
    /\ last.via = "none"
    /\ last' = [last EXCEPT !.via = "strip", !.r.msgTitle = stripQuotes(last.input)]
    /\ UNCHANGED <<todos, nextId, currentView, file, now, phase, queue, results,
                   failures>>

\* The result is stripped again: last.r.oldTitle is the text stripped once,
\* last.r.msgTitle the text stripped twice
StripAgain ==
    /\ phase = "strip"
    /\ last.via = "strip"
    /\ last' = [last EXCEPT !.via = "restrip", !.r.oldTitle = last.r.msgTitle,
                            !.r.msgTitle = stripQuotes(last.r.msgTitle)]
    /\ UNCHANGED <<todos, nextId, currentView, file, now, phase, queue, results,
                   failures>>

NextStrip ==
    \/ Strip
    \/ StripAgain

SpecStrip == InitStrip /\ [][NextStrip]_vars

----------------------------------------------------------------------------
(* Properties *)

Ids(todoList) == {todoList[i].id : i \in 1..Len(todoList)}

\* The greatest id of a list, 0 for the empty list
MaxId(todoList) ==
    IF todoList = <<>> THEN 0
    ELSE CHOOSE m \in Ids(todoList) : \A id \in Ids(todoList) : id <= m

UniqueIds(todoList) ==
    \A i, j \in 1..Len(todoList) : i # j => todoList[i].id # todoList[j].id

\* C1: from the empty container with nextId 1, after any sequence of Add commands
\* no two todos share an id and nextId is 1 + the greatest id present (1 when the
\* container is empty).
C1_AddKeepsIdsUnique ==
    /\ UniqueIds(todos)
    /\ nextId = 1 + MaxId(todos)

\* Two Add commands have succeeded in a row
C1_TwoAdded ==
    /\ Len(todos) >= 2
    /\ last.r.command = ADD_TODO /\ last.r.success
    /\ Len(last.pre.todos) = Len(todos) - 1

\* C2: in every state of the container after loading, nextId is greater than the id
\* of every todo in it.
C2_NextIdAboveIds ==
    phase # "boot" => \A i \in 1..Len(todos) : todos[i].id < nextId

Dispatched == last.via \in {"line", "batch"}

MutatingTypes ==
    {ADD_TODO, COMPLETE_TODO, INCOMPLETE_TODO, TOGGLE_TODO, DELETE_TODO, EDIT_TODO,
     CLEAR_COMPLETED}

C4_ReadOnlyNeverSaves ==
    (Dispatched /\ last.r.command \in {LIST_TODOS, HELP})
        => last.r.saves = 0 /\ last.outcome = "none"

\* A search has listed a todo of a container whose file differs from the state
C4_SearchedUnsaved ==
    /\ Dispatched /\ last.r.command = LIST_TODOS /\ last.r.success
    /\ "search" \in last.command.meta
    /\ last.r.count > 0
    /\ file # toJSON(appState)

\* C5: when the save function returns false or throws during a mutating command
\* whose mutation succeeded, the router returns success and the state is the one the
\* command yields when the save succeeds; the file is left as it was.
C5_FailedSaveKeepsMutation ==
    [][(phase = "batch" /\ queue' # queue /\ last'.outcome \in {"false", "throw"})
          => /\ last'.r.success /\ ~last'.r.threw
             /\ appState' = routeCommand(appState, file, Head(queue), "ok", now).st
             /\ file' = file]_vars

\* An Add command has appended a todo although its save threw
C5_AddedAlthoughSaveThrew ==
    /\ last.via = "batch" /\ last.outcome = "throw"
    /\ last.r.command = ADD_TODO /\ last.r.success
    /\ Len(todos) = Len(last.pre.todos) + 1
    /\ file # toJSON(appState)

\* C6: routeCommand returns a Result for every command the parser produces; it never
\* throws.
C6_RouteNeverThrows ==
    last.via = "batch" => ~last.r.threw

\* The kinds of command the claim lists
Kinds ==
    {ADD_TODO, COMPLETE_TODO, INCOMPLETE_TODO, TOGGLE_TODO, DELETE_TODO, EDIT_TODO,
     LIST_TODOS, CLEAR_COMPLETED, FILTER_TODOS, HELP, EXIT, UNKNOWN}

MatchesAlias(text) ==
    toLowerCase(trim(text)) \in AliasKeys \cup InheritedKeys

MatchesPattern(text) == FirstMatch(trim(text), 1) # 0

\* C7: parseCommand returns a command whose type is one of the twelve kinds, and a
\* text that matches no alias and no pattern yields Unknown with the trimmed text.
C7_ParseYieldsKnownKind ==
    last.via = "parse"
        => /\ last.command.type \in Kinds
           /\ (~MatchesAlias(last.input) /\ ~MatchesPattern(last.input)
                  /\ trim(last.input) # <<>>)
                 => /\ last.command.type = UNKNOWN
                    /\ last.command.payload.input = trim(last.input)

\* The kind each alias stands for
AliasKind(key) ==
    CASE key = <<"a">> -> ADD_TODO
      [] key = <<"c">> -> COMPLETE_TODO
      [] key = <<"i">> -> INCOMPLETE_TODO
      [] key = <<"t">> -> TOGGLE_TODO
      [] key = <<"d">> -> DELETE_TODO
      [] key = <<"e">> -> EDIT_TODO
      [] key = <<"l">> -> LIST_TODOS
      [] key = <<"c","c">> -> CLEAR_COMPLETED
      [] key = <<"f">> -> FILTER_TODOS
      [] key = <<"h">> -> HELP
      [] key = <<"x">> -> EXIT
      [] OTHER -> Undefined

\* C8: a bare alias, in any case and with white space around it, parses to a
\* command of the kind the alias stands for.
C8_AliasYieldsItsKind ==
    (last.via = "parse" /\ AliasKind(toLowerCase(trim(last.input))) # Undefined)
        => last.command.type = AliasKind(toLowerCase(trim(last.input)))

\* C9: for a todo 1 that is not completed, 'c 1' parses to a Complete command with
\* id 1, and routing it completes the todo and returns success with a message that
\* holds the title.
C9_ShortCompleteCompletes ==
    (/\ last.via = "line" /\ last.input = <<"c", " ", "1">>
     /\ \E i \in 1..Len(last.pre.todos) :
            last.pre.todos[i].id = 1 /\ ~last.pre.todos[i].completed)
        => /\ last.command.type = COMPLETE_TODO /\ last.command.payload.id = 1
           /\ last.r.success
           /\ \E i \in 1..Len(todos) :
                  /\ todos[i].id = 1 /\ todos[i].completed
                  /\ last.r.msgTitle = todos[i].title

\* The lines that are an add word and a valid title in double quotes: 'add "a"' and
\* 'new "a b"', with their titles
QuotedTitle(line) ==
    CASE line = <<"a","d","d"," ","\"","a","\"">> -> <<"a">>
      [] line = <<"n","e","w"," ","\"","a"," ","b","\"">> -> <<"a"," ","b">>
      [] OTHER -> NoText

\* C10: a line 'add "t"' with a valid title t parses to an Add command with title t,
\* and routing it appends one todo with the id nextId had, title t and completed
\* false, and adds one to nextId; on an empty container with nextId 1 the todo gets
\* id 1 and nextId becomes 2; the title in the file has no quotes around it.
C10_AddQuotedTitle ==
    (last.via = "line" /\ QuotedTitle(last.input) # NoText)
        => /\ last.command.type = ADD_TODO
           /\ last.command.payload.title = QuotedTitle(last.input)
           /\ last.r.success
           /\ Len(todos) = Len(last.pre.todos) + 1
           /\ SubSeq(todos, 1, Len(last.pre.todos)) = last.pre.todos
           /\ todos[Len(todos)].id = last.pre.nextId
           /\ todos[Len(todos)].title = QuotedTitle(last.input)
           /\ ~todos[Len(todos)].completed
           /\ nextId = last.pre.nextId + 1
           /\ (last.pre.todos = <<>> /\ last.pre.nextId = 1)
                 => todos[1].id = 1 /\ nextId = 2
           /\ last.outcome = "ok"
                 => file.todos[Len(file.todos)].title = QuotedTitle(last.input)

\* A quoted Add has appended a second todo to a container loaded from the file
C10_AddedAfterAnother ==
    /\ last.via = "line" /\ QuotedTitle(last.input) = <<"a", " ", "b">>
    /\ last.r.success /\ last.outcome = "ok"
    /\ Len(todos) = 2
    /\ todos[2].title = <<"a", " ", "b">>
    /\ todos[2].id = last.pre.nextId

\* A command that names a todo by id has been routed with an id no todo has
IdTypes == {COMPLETE_TODO, INCOMPLETE_TODO, TOGGLE_TODO, DELETE_TODO, EDIT_TODO}

AbsentId ==
    /\ last.via = "batch"
    /\ last.command.type \in IdTypes
    /\ last.command.payload.id \notin Ids(last.pre.todos)

SortTitleDesc == <<"s","o","r","t"," ","t","i","t","l","e"," ","d","e","s","c">>

\* C12: 'sort title desc' parses to a List command that carries the sort key title
\* and the descending direction, and routing it returns the todos ordered by title,
\* descending.
C12_SortOrdersByKey ==
    (last.via = "line" /\ last.input = SortTitleDesc)
        => /\ last.command.type = LIST_TODOS /\ "sort" \in last.command.meta
           /\ last.command.payload.sortBy = <<"t","i","t","l","e">>
           /\ ~last.command.payload.ascending
           /\ last.r.success
           /\ last.r.todos =
                  SortBy(last.pre.todos, Len(last.pre.todos), <<"t","i","t","l","e">>, FALSE)

\* C13: 'sort status' succeeds, and the todos it returns keep, among those with the
\* same completed value, the order they have in the container.
C13_SortByStatusStable ==
    (last.via = "line" /\ last.input = <<"s","o","r","t"," ","s","t","a","t","u","s">>)
        => /\ last.r.success
           /\ Len(last.r.todos) = Len(last.pre.todos)
           /\ SelectSeq(last.r.todos, LAMBDA todo : todo.completed)
                 = SelectSeq(last.pre.todos, LAMBDA todo : todo.completed)
           /\ SelectSeq(last.r.todos, LAMBDA todo : ~todo.completed)
                 = SelectSeq(last.pre.todos, LAMBDA todo : ~todo.completed)

\* The text is a key of the alias table, in any case
MatchesTableAlias(text) == toLowerCase(trim(text)) \in AliasKeys

\* C14: a text that matches no alias and no pattern parses to an Unknown command,
\* and routing it returns success = false with a message that echoes the text.
C14_UnknownEchoed ==
    (/\ last.via = "batch" /\ last.input # NoText
     /\ ~MatchesTableAlias(last.input) /\ ~MatchesPattern(last.input))
        => /\ last.command.type = UNKNOWN
           /\ ~last.r.threw /\ ~last.r.success
           /\ last.r.text = "Unknown command"
           /\ last.r.msgTitle = last.input

\* The todos shown under a view, and the set of the elements of a list
Shown(view) == getFilteredTodos(setCurrentView(appState, view))
Elements(list) == {list[i] : i \in 1..Len(list)}

\* C15: in every state the todos shown under active and those shown under completed
\* are disjoint, and together they are exactly the todos shown under all.
C15_FilterPartition ==
    /\ Elements(Shown(ACTIVE)) \cap Elements(Shown(COMPLETED)) = {}
    /\ Elements(Shown(ACTIVE)) \cup Elements(Shown(COMPLETED)) = Elements(Shown(ALL))
    /\ Len(Shown(ACTIVE)) + Len(Shown(COMPLETED)) = Len(Shown(ALL))
    /\ Shown(ALL) = todos

\* The container holds a todo of each kind after a command
C15_BothKinds ==
    /\ Dispatched
    /\ Shown(ACTIVE) # <<>>
    /\ Shown(COMPLETED) # <<>>

\* The id, title and completed flag of each todo of a list, in order
Items(todoList) ==
    [i \in 1..Len(todoList) |->
        [id |-> todoList[i].id, title |-> todoList[i].title,
         completed |-> todoList[i].completed]]

\* The state loaded from the file a save of the current state writes
Reloaded == loadTodosAsInstances(saveTodosToFile(appState, file, "ok"), now)

\* C16: for every state of the running application, saving it and loading the file
\* yields the same todos (id, title, completed, in order), nextId and currentView.
C16_SaveLoadRoundTrip ==
    phase \in {"running", "closed"}
        => /\ Items(Reloaded.todos) = Items(todos)
           /\ Reloaded.nextId = nextId
           /\ Reloaded.currentView = currentView

\* A command has saved a state that holds a todo, a nextId above 1 and a view other
\* than all
C16_SavedActiveView ==
    /\ Dispatched /\ last.r.saves = 1
    /\ file = toJSON(appState)
    /\ todos # <<>> /\ nextId > 1 /\ currentView = ACTIVE

\* A quote is the first and the last character of a text of two or more characters
Bounded(text) == Len(text) >= 2 /\ text[1] = Quote /\ text[Len(text)] = Quote

\* The text without its first and last character
Inner(text) == SubSeq(text, 2, Len(text) - 1)

\* The text holds a pair of quotes besides its first and last character
EmbeddedPair(text) ==
    Len(text) >= 2 /\ Len(SelectSeq(Inner(text), LAMBDA c : c = Quote)) >= 2

\* C17: stripping changes a text only when a quote is its first and its last
\* character, and then removes exactly that pair; and stripping the stripped text
\* of a text without an embedded pair of quotes returns it unchanged.
C17_StripIdempotent ==
    /\ (last.via = "strip" /\ last.r.msgTitle # last.input)
          => Bounded(last.input) /\ last.r.msgTitle = Inner(last.input)
    /\ (last.via = "restrip" /\ ~EmbeddedPair(last.input))
          => last.r.msgTitle = last.r.oldTitle

\* A quoted text that holds one more quote has been stripped twice
C17_StrippedTwice ==
    /\ last.via = "restrip"
    /\ last.input = <<Quote, "a", Quote, Quote>>
    /\ last.r.oldTitle = <<"a", Quote>>
    /\ last.r.msgTitle = <<"a", Quote>>

\* C18: 'filter active' parses to a Filter command whose filter is active, and
\* routing it succeeds and sets currentView to active; currentView is always one of
\* the three views.
C18_FilterSetsView ==
    /\ currentView \in Views
    /\ (last.via = "line"
          /\ last.input = <<"f","i","l","t","e","r"," ","a","c","t","i","v","e">>)
          => /\ last.command.type = FILTER_TODOS
             /\ last.command.payload.filter = ACTIVE
             /\ last.r.success
             /\ currentView = ACTIVE

\* C19: the commands of a batch are those parsed from the input, in its order; each
\* turn of the loop routes the first command not yet routed and pushes one result;
\* after an Exit command the loop is left and no command of the batch remains; and
\* outside the loop no command waits to be routed.
C19_BatchInOrderUntilExit ==
    [][/\ (phase = "running" /\ phase' = "batch")
           => /\ queue' = [i \in 1..Len(commandStrings(last'.input)) |->
                              Parsed[commandStrings(last'.input)[i]]]
              /\ results' = <<>>
       /\ (phase = "batch" /\ queue' # queue)
           => /\ last'.via = "batch" /\ last'.command = Head(queue)
              /\ Len(results') = Len(results) + 1
              /\ SubSeq(results', 1, Len(results)) = results
              /\ queue' \in {Tail(queue), <<>>}
              /\ Head(queue).type = EXIT
                    => queue' = <<>> /\ phase' = "running"
                       /\ appState' = appState /\ file' = file
              /\ phase' = "batch" => queue' = Tail(queue) /\ queue' # <<>>
       /\ phase' # "batch" => queue' = <<>>]_vars

\* An Exit command has ended a batch after its second command, one command unrouted
C19_ExitEndedBatch ==
    /\ last.via = "batch" /\ last.command.type = EXIT
    /\ phase = "running" /\ queue = <<>>
    /\ Len(results) = 2
    /\ results[1].kind = ADD_TODO /\ results[2].kind = EXIT

\* An entry of data.todos that is well formed: it has an id and a string title
WellFormed(obj) == obj.id # NoId /\ obj.title \notin {NoText, NotAString}

\* C20: a missing file and a file that is no JSON load as the empty default; in a
\* parsed file each of todos, nextId and currentView that is missing or invalid is
\* replaced by its default while the others are kept, and a malformed entry of
\* todos is replaced on its own while every well-formed entry is kept.
C20_LoadDefaultsEachField ==
    last.via = "load"
        => IF file.kind # "json"
           THEN todos = <<>> /\ nextId = 1 /\ currentView = ALL
           ELSE /\ nextId = IF file.nextIdIsNumber /\ file.nextId >= 1
                            THEN file.nextId ELSE 1
                /\ currentView = IF file.currentView \in Views
                                 THEN file.currentView ELSE ALL
                /\ IF ~file.todosIsArray THEN todos = <<>>
                   ELSE /\ Len(todos) = Len(file.todos)
                        /\ \A i \in 1..Len(file.todos) :
                              WellFormed(file.todos[i])
                                => /\ todos[i].id = file.todos[i].id
                                   /\ todos[i].title = trim(file.todos[i].title)
                                   /\ todos[i].completed = file.todos[i].completed

\* C21: ClearCompleted removes exactly the completed todos: none is completed
\* afterwards, the todos that were not completed are all there in their order, the
\* count reported is the number removed, and with no completed todo the command
\* succeeds with count 0 and changes nothing.
C21_ClearRemovesCompletedOnly ==
    (Dispatched /\ last.r.command = CLEAR_COMPLETED)
        => /\ last.r.success
           /\ \A i \in 1..Len(todos) : ~todos[i].completed
           /\ todos = SelectSeq(last.pre.todos, LAMBDA todo : ~todo.completed)
           /\ last.r.count = Len(last.pre.todos) - Len(todos)
           /\ (\A i \in 1..Len(last.pre.todos) : ~last.pre.todos[i].completed)
                 => last.r.count = 0 /\ appState = last.pre

\* ---------------------------------------------------------------------------
\* The interactive loop with the write of the file as a step of its own

\* The model lets at most MaxInFlight lines be taken before one of them is done
MaxInFlight == 2

\* The lines that come in this model: 'add "a"', 'c 1', 'delete 1', 'ls active', 'bye'
LoopLines ==
    {<<"a","d","d"," ","\"","a","\"">>,
     <<"c"," ","1">>,
     <<"d","e","l","e","t","e"," ","1">>,
     <<"l","s"," ","a","c","t","i","v","e">>,
     <<"b","y","e">>}

\* A 'line' listener that stays registered after the line has come (rl.on)
StillListening(ph) == ph

\* rl.once('line', handleInput), as rl.question: the listener is taken off when the
\* line comes, and nothing listens until handleInput registers it again
AfterLine(ph) == "busy"

\* A line comes while handleInput listens: processRawInput parses and routes it,
\* the handler changes the AppState and starts the write of the file, and
\* handleInput waits for it
TakeLine ==
    /\ phase = "running"
    /\ Len(queue) < MaxInFlight
    /\ \E line \in LoopLines :
         /\ ~Lines[line].quit
         /\ Room(Lines[line].command)
         /\ \E r \in {processRawInput(appState, file, line, "ok", now)} :
              /\ todos' = r.st.todos
              /\ nextId' = r.st.nextId
              /\ currentView' = r.st.currentView
              /\ queue' = Append(queue, [line |-> line, file |-> file, r |-> r])
              /\ last' = Record("taken", line, Lines[line].command, appState,
                                "none", r)
    /\ phase' = AfterLine(phase)
    /\ results' = <<>>
    /\ UNCHANGED <<file, now, failures>>

\* A line comes while no listener is registered: the 'line' event has no taker
LineLost ==
    /\ phase = "busy"
    /\ \E line \in LoopLines :
         last' = Record("lost", line, NoCommand, appState, "none",
                        Nothing(appState, file))
    /\ UNCHANGED <<todos, nextId, currentView, file, now, phase, queue, results,
                    failures>>

\* The write of the file ends and processRawInput returns: the loop ends after an
\* Exit, else handleInput registers itself for the next line
Settle ==
    /\ queue # <<>>
    /\ \E job \in {Head(queue)} :
         /\ file' = IF job.r.saves > 0 THEN job.r.file ELSE file
         /\ phase' = IF job.r.success /\ job.r.command = EXIT /\ job.r.exit
                     THEN "closed" ELSE "running"
         /\ last' = Record("settled", job.line, Lines[job.line].command, last.pre,
                           IF job.r.saves > 0 THEN "ok" ELSE "none", job.r)
    /\ queue' = Tail(queue)
    /\ UNCHANGED <<todos, nextId, currentView, now, results, failures>>

NextLoop ==
    \/ Tick
    \/ Load
    \/ Quit
    \/ TakeLine
    \/ LineLost
    \/ Settle

SpecLoop == Init /\ [][NextLoop]_vars

\* C22: in the interactive loop at most one command is in flight: while one is, no
\* listener is registered, the AppState is the one that command left and the file is
\* the one it found, so no other command's mutation or save comes in between.
C22_OneCommandInFlight ==
    /\ Len(queue) <= 1
    /\ phase \in {"running", "closed"} => queue = <<>>
    /\ queue # <<>> => /\ phase = "busy"
                       /\ appState = queue[1].r.st
                       /\ file = queue[1].file

\* A line came while a command that saves was in flight, and was not taken
C22_LineLostDuringSave ==
    /\ Len(queue) = 1
    /\ queue[1].r.saves > 0
    /\ queue[1].r.file # file
    /\ last.via = "lost"

\* ---------------------------------------------------------------------------
\* The operations of Todo and AppState called one by one

\* A title of MaxTitleLength + 1 characters
LongTitle == [i \in 1..(MaxTitleLength + 1) |-> "a"]

\* The titles handed to the operations: '', '  ', ' a' and the long one
TitleTexts == {<<>>, <<" "," ">>, <<" ","a">>, LongTitle}

InitItems ==
    /\ todos = <<>>
    /\ nextId = 1
    /\ currentView = ALL
    /\ file = MissingFile
    /\ now = 0
    /\ phase = "items"
    /\ queue = <<>>
    /\ results = <<>>
    /\ failures = 0
    /\ last = Record("none", NoText, NoCommand, AppState(<<>>, 1, ALL), "none",
                     Nothing(AppState(<<>>, 1, ALL), file))

\* What is recorded about a call: the operation, the title and the id it was given,
\* the state before, and "threw", "true", "false" or "done" for how it ended
Called(op, title, id, outcome) ==
    Record(op, title, [NoCommand EXCEPT !.payload.id = id], appState, outcome,
           Nothing(appState, file))

\* appState.addTodo(new Todo(id, title))
CreateItem ==
    /\ Len(todos) < MaxTodos
    /\ \E id \in 1..MaxTodos, title \in TitleTexts :
         \E st \in {addTodo(appState, Todo(id, title, FALSE, NoTime, NoTime, now))} :
           /\ todos' = st.todos
           /\ nextId' = st.nextId
           /\ last' = Called("create", title, id, "done")
    /\ UNCHANGED <<currentView, file, now, phase, queue, results, failures>>

\* todo.updateTitle(newTitle) on a todo of the list
RetitleItem ==
    /\ \E i \in 1..Len(todos), title \in TitleTexts :
         IF updateTitleThrows(title)
         THEN /\ todos' = todos
              /\ last' = Called("retitle", title, todos[i].id, "threw")
         ELSE /\ todos' = [todos EXCEPT ![i] = updateTitle(@, title, now)]
              /\ last' = Called("retitle", title, todos[i].id, "done")
    /\ UNCHANGED <<nextId, currentView, file, now, phase, queue, results, failures>>

\* editTodoWithPersistence(appState, id, newTitle), without a save function
EditItem ==
    /\ \E id \in 1..MaxTodos, title \in TitleTexts :
         \E r \in {editTodoWithPersistence(appState, file, id, title, FALSE, "none",
                                           now)} :
           /\ todos' = r.st.todos
           /\ last' = Called("edit", title, id, IF r.threw THEN "threw" ELSE "done")
    /\ UNCHANGED <<nextId, currentView, file, now, phase, queue, results, failures>>

\* appState.removeTodo(id), which returns whether the list got shorter
RemoveItem ==
    /\ \E id \in 1..MaxTodos :
         \E st \in {removeTodo(appState, id)} :
           /\ todos' = st.todos
           /\ last' = Called("remove", NoText, id,
                             IF Len(st.todos) < Len(todos) THEN "true" ELSE "false")
    /\ UNCHANGED <<nextId, currentView, file, now, phase, queue, results, failures>>

NextItems ==
    \/ Tick
    \/ CreateItem
    \/ RetitleItem
    \/ EditItem
    \/ RemoveItem

SpecItems == InitItems /\ [][NextItems]_vars

\* A title that is empty or whitespace-only after trimming, or too long
InvalidTitle(title) == trim(title) = <<>> \/ Len(title) > MaxTitleLength

\* C23: creating or retitling an item with a title that is empty or whitespace-only
\* after trimming, or longer than 255 characters, is rejected, and a rejected retitle
\* (also through Edit) leaves the item's title, completed flag and updatedAt as they
\* were.
C23_InvalidTitleRejected ==
    (last.via \in {"create", "retitle", "edit"} /\ InvalidTitle(last.input))
        => last.outcome = "threw" /\ todos = last.pre.todos

\* The todos of list without those whose id is id
Without(list, id) == SelectSeq(list, LAMBDA todo : todo.id # id)

\* C24 as stated: remove(id) takes out the first item with the id only, any later
\* item with the same id stays, and it returns true exactly when it took one out.
C24_RemoveTakesFirstMatch ==
    last.via = "remove"
        => /\ todos = removeFirstTodo(last.pre, last.command.payload.id).todos
           /\ last.outcome = "true"
                <=> IndexOfId(last.pre.todos, last.command.payload.id, 1) # 0

\* C24 amended: remove(id) takes out every item with the id, keeps the others in
\* their order, and returns true exactly when it took at least one out.
C24_RemoveTakesEveryMatch ==
    last.via = "remove"
        => /\ todos = Without(last.pre.todos, last.command.payload.id)
           /\ \A i \in 1..Len(todos) : todos[i].id # last.command.payload.id
           /\ last.outcome = "true"
                <=> IndexOfId(last.pre.todos, last.command.payload.id, 1) # 0

\* remove(id) was called on a list with two items of that id
C24_RemovedBothOfTwo ==
    /\ last.via = "remove"
    /\ Len(last.pre.todos) = 2
    /\ last.pre.todos[1].id = last.pre.todos[2].id
    /\ last.command.payload.id = last.pre.todos[1].id
    /\ todos = <<>>
    /\ last.outcome = "true"

\* C25: parsing tries the bare aliases before the patterns, and the patterns in
\* their listed order, the first that matches giving the command; a text that matches
\* both the List and the Filter pattern, as 'view active', is a List command with
\* that filter.
C25_AliasesThenPatternsInOrder ==
    (last.via = "parse" /\ trim(last.input) # <<>>)
        => LET t == trim(last.input)
               low == toLowerCase(trim(last.input))
           IN  /\ low \in AliasKeys \cup InheritedKeys
                    => /\ last.command.payload.keys = {"input"}
                       /\ last.command.payload.input = t
                       /\ low \in AliasKeys
                            => last.command.type = CommandTypeOf(COMMAND_ALIASES(low))
               /\ low \notin AliasKeys \cup InheritedKeys
                    => \A k \in 1..Len(PatternNames) :
                         (/\ COMMAND_PATTERNS(PatternNames[k], t) # NoMatch
                          /\ \A j \in 1..(k - 1) :
                                COMMAND_PATTERNS(PatternNames[j], t) = NoMatch)
                           => last.command =
                                createCommandFromMatch(PatternNames[k],
                                    COMMAND_PATTERNS(PatternNames[k], t))
               /\ (/\ COMMAND_PATTERNS("LIST", t) # NoMatch
                   /\ COMMAND_PATTERNS("FILTER", t) # NoMatch)
                    => /\ last.command.type = LIST_TODOS
                       /\ last.command.payload.filter
                            = toLowerCase(TrimStart(AfterWord(t)))
                       /\ last.command.payload.filter \in Views

\* 'view active' was parsed, to a List command with the filter active
C25_ViewActiveListed ==
    /\ last.via = "parse"
    /\ last.input = <<"v","i","e","w"," ","a","c","t","i","v","e">>
    /\ last.command.type = LIST_TODOS
    /\ last.command.payload.filter = ACTIVE

\* C26: from a state where nextId is greater than every id in the list, no command
\* lowers nextId, nextId stays greater than every id, and every id that was not in
\* the list before is at least the nextId of before: an id freed by Delete or
\* ClearCompleted is not given out again.
C26_NextIdNeverDecreases ==
    [][(phase = "running" /\ \A i \in 1..Len(todos) : todos[i].id < nextId)
          => /\ nextId' >= nextId
             /\ \A i \in 1..Len(todos') :
                   /\ todos'[i].id < nextId'
                   /\ todos'[i].id \in Ids(todos) \/ todos'[i].id >= nextId]_vars

\* The only todo, with id 1, was deleted, and the Add after it allocated id 2
C26_AddedAfterDelete ==
    /\ last.via = "line"
    /\ last.command.type = ADD_TODO
    /\ last.r.success
    /\ last.pre.todos = <<>>
    /\ last.pre.nextId = 2
    /\ Len(todos) = 1
    /\ todos[1].id = 2
    /\ nextId = 3

\* C27: a command whose Result has success = false leaves the todos, nextId and the
\* current view as they were and calls no save.
C27_FailureChangesNothing ==
    (Dispatched /\ ~last.r.success)
        => /\ appState = last.pre
           /\ last.r.saves = 0
           /\ last.outcome = "none"

\* A Sort command failed while the list was not empty and the view was active
C27_SortFailedInActiveView ==
    /\ Dispatched
    /\ ~last.r.success
    /\ last.command.type = LIST_TODOS
    /\ "sort" \in last.command.meta
    /\ todos # <<>>
    /\ last.pre.currentView = ACTIVE

\* C28 as stated: with every save succeeding, after each command the todos (id,
\* title, completed, order) and nextId of the data file, read as loadTodosFromFile
\* reads it, are those in memory.
C28_SnapshotFollowsMemory ==
    Dispatched
        => /\ Items(loadTodosFromFile(file).todos) = Items(todos)
           /\ loadTodosFromFile(file).nextId = nextId

\* C28 amended: with every save succeeding, every write of the data file puts there
\* the todos, nextId and currentView of memory at that moment, and once a command
\* has written the file its todos (id, title, completed, order) and nextId are those
\* in memory after every command; its currentView is the one of the last write.
C28_SnapshotFollowsMemoryOnceSaved ==
    [][/\ file' # file => file' = toJSON(appState')
       /\ file' \notin StartFiles
            => /\ Items(file'.todos) = Items(todos')
               /\ file'.nextId = nextId']_vars

\* After a save, a List command has changed the view in memory only
C28_ViewAheadOfSnapshot ==
    /\ Dispatched
    /\ last.r.saves = 0
    /\ file \notin StartFiles
    /\ todos # <<>>
    /\ file.currentView = ALL
    /\ currentView = ACTIVE

\* C29: a List command that succeeds sets the current view to the filter of the
\* command and changes neither the todos nor nextId; so a Search or a Stats command
\* leaves the view at all, whatever it was before.
C29_ListSetsViewOnly ==
    (Dispatched /\ last.r.success /\ last.command.type = LIST_TODOS)
        => /\ currentView = last.command.payload.filter
           /\ todos = last.pre.todos
           /\ nextId = last.pre.nextId
           /\ last.command.meta \cap {"search", "stats"} # {} => currentView = ALL

\* A Search or Stats command succeeded while the view was active
C29_StatsResetView ==
    /\ Dispatched
    /\ last.r.success
    /\ last.command.type = LIST_TODOS
    /\ last.command.meta \cap {"search", "stats"} # {}
    /\ last.pre.currentView = ACTIVE
    /\ currentView = ALL
    /\ todos # <<>>

UpdateTypes == {COMPLETE_TODO, INCOMPLETE_TODO, TOGGLE_TODO, EDIT_TODO}

\* C30: a Complete, Incomplete, Toggle or Edit command that succeeds on id n changes
\* one todo with id n, the first, and of it only the completed flag (Complete: true,
\* Incomplete: false, Toggle: flipped) or the title (Edit), and updatedAt; the number
\* of todos, their order, every other todo, nextId and the view stay.  complete and
\* uncomplete applied twice give the flag of once, toggle applied twice the flag of
\* before.
C30_UpdateChangesOneTodo ==
    /\ (Dispatched /\ last.r.success /\ last.command.type \in UpdateTypes)
         => \E k \in {IndexOfId(last.pre.todos, last.command.payload.id, 1)} :
              /\ k # 0
              /\ Len(todos) = Len(last.pre.todos)
              /\ nextId = last.pre.nextId
              /\ currentView = last.pre.currentView
              /\ \A i \in 1..Len(todos) : i # k => todos[i] = last.pre.todos[i]
              /\ todos[k].id = last.command.payload.id
              /\ todos[k].createdAt = last.pre.todos[k].createdAt
              /\ todos[k].updatedAt >= last.pre.todos[k].updatedAt
              /\ todos[k].title = IF last.command.type = EDIT_TODO
                                  THEN trim(last.command.payload.title)
                                  ELSE last.pre.todos[k].title
              /\ todos[k].completed =
                   CASE last.command.type = COMPLETE_TODO -> TRUE
                     [] last.command.type = INCOMPLETE_TODO -> FALSE
                     [] last.command.type = TOGGLE_TODO -> ~last.pre.todos[k].completed
                     [] OTHER -> last.pre.todos[k].completed
    /\ \A i \in 1..Len(todos) :
         /\ complete(complete(todos[i], now), now).completed
              = complete(todos[i], now).completed
         /\ uncomplete(uncomplete(todos[i], now), now).completed
              = uncomplete(todos[i], now).completed
         /\ toggle(toggle(todos[i], now), now).completed = todos[i].completed

\* 'toggle 2' succeeded on a list of two todos with the id 2, the first completed
C30_ToggledFirstOfTwo ==
    /\ Dispatched
    /\ last.r.success
    /\ last.command.type = TOGGLE_TODO
    /\ Len(last.pre.todos) = 2
    /\ last.pre.todos[1].id = 2 /\ last.pre.todos[2].id = 2
    /\ last.pre.todos[1].completed
    /\ ~todos[1].completed

====
